---- MODULE Spec2Model ----
(***************************************************************************)
(* Terminal RAG chatbot over device logs (chatbot.js) and its ingestion    *)
(* script.  Text is modelled character by character: a JavaScript string   *)
(* is a sequence of one-character strings, so that trimming, lower-casing, *)
(* regular-expression matching and splitting are computed as the code      *)
(* computes them.                                                          *)
(***************************************************************************)
EXTENDS Integers, Sequences, FiniteSets, TLC

-----------------------------------------------------------------------------
(* Characters and JavaScript string primitives                             *)

LowerCaseLetters ==
  <<"a","b","c","d","e","f","g","h","i","j","k","l","m",
    "n","o","p","q","r","s","t","u","v","w","x","y","z">>

UpperCaseLetters ==
  <<"A","B","C","D","E","F","G","H","I","J","K","L","M",
    "N","O","P","Q","R","S","T","U","V","W","X","Y","Z">>

Digits ==
  {"0","1","2","3","4","5","6","7","8","9"}

Range(s) ==
  {s[i] : i \in DOMAIN s}

\* \s of a JavaScript regular expression (the characters a typed line can hold)
IsSpace(c) ==
  c \in {" ", "\t"}

\* \w of a JavaScript regular expression
IsWordChar(c) ==
  c \in Range(LowerCaseLetters) \cup Range(UpperCaseLetters) \cup Digits \cup {"_"}

\* the class [a-z0-9_.] under the flag i
IsFieldChar(c) ==
  IsWordChar(c) \/ c = "."

IsQuote(c) ==
  c \in {"'", "\""}

\* the lower-case letter of every upper-case letter
LowerOf ==
  [c \in Range(UpperCaseLetters) |->
     LowerCaseLetters[CHOOSE i \in 1..26 : UpperCaseLetters[i] = c]]

ToLowerChar(c) ==
  IF c \in DOMAIN LowerOf THEN LowerOf[c] ELSE c

\* String.prototype.toLowerCase
ToLowerCase(s) ==
  [i \in 1..Len(s) |-> ToLowerChar(s[i])]

\* s.substring(i-1): the text from the 1-based position i to the end
From(s, i) ==
  SubSeq(s, i, Len(s))

\* first position >= i that holds no whitespace, Len(s)+1 when there is none
RECURSIVE SkipSpaces(_, _)
SkipSpaces(s, i) ==
  IF i <= Len(s) /\ IsSpace(s[i]) THEN SkipSpaces(s, i + 1) ELSE i

\* last position <= i that holds no whitespace, 0 when there is none
RECURSIVE SkipSpacesBack(_, _)
SkipSpacesBack(s, i) ==
  IF i >= 1 /\ IsSpace(s[i]) THEN SkipSpacesBack(s, i - 1) ELSE i

\* String.prototype.trim
Trim(s) ==
  SubSeq(s, SkipSpaces(s, 1), SkipSpacesBack(s, Len(s)))

\* s.replace(/['"]/g, "")
StripQuotes(s) ==
  SelectSeq(s, LAMBDA c : ~IsQuote(c))

\* s.replace(/[^a-z0-9_.]/gi, "")
StripNonFieldChars(s) ==
  SelectSeq(s, IsFieldChar)

\* the literal w stands at position i of s (compared exactly)
LitAt(s, i, w) ==
  /\ i >= 1
  /\ i + Len(w) - 1 <= Len(s)
  /\ \A k \in 1..Len(w) : s[i + k - 1] = w[k]

\* the lower-case literal w stands at position i of s under the flag i
LitAtCI(s, i, w) ==
  /\ i >= 1
  /\ i + Len(w) - 1 <= Len(s)
  /\ \A k \in 1..Len(w) : ToLowerChar(s[i + k - 1]) = w[k]

\* \b between positions i-1 and i of s
WordBoundary(s, i) ==
  LET before == i - 1 >= 1 /\ i - 1 <= Len(s) /\ IsWordChar(s[i - 1])
      after  == i >= 1 /\ i <= Len(s) /\ IsWordChar(s[i])
  IN  before # after

\* \s+(.+)$ tried at position i: the position where the group starts, 0 when
\* the pattern does not match.  \s+ is greedy and gives one character back
\* when the rest of the line is whitespace only.
RestAfterSpaces(s, i) ==
  LET j == SkipSpaces(s, i)
  IN  IF j = i THEN 0
      ELSE IF j <= Len(s) THEN j
      ELSE IF j - i >= 2 THEN Len(s)
      ELSE 0

\* s.indexOf(c, i-1) + 1: the first position >= i that holds c, else 0
RECURSIVE IndexOfChar(_, _, _)
IndexOfChar(s, c, i) ==
  IF i > Len(s) THEN 0
  ELSE IF s[i] = c THEN i
  ELSE IndexOfChar(s, c, i + 1)

\* String.prototype.split("=")
RECURSIVE SplitOnChar(_, _)
SplitOnChar(s, c) ==
  LET i == IndexOfChar(s, c, 1)
  IN  IF i > 0
        THEN <<SubSeq(s, 1, i - 1)>> \o SplitOnChar(From(s, i + 1), c)
        ELSE <<s>>

\* String.prototype.split(/\s+/)
\* first position >= i that holds whitespace, Len(s)+1 when there is none
RECURSIVE SkipNonSpaces(_, _)
SkipNonSpaces(s, i) ==
  IF i <= Len(s) /\ ~IsSpace(s[i]) THEN SkipNonSpaces(s, i + 1) ELSE i

RECURSIVE SplitOnSpaces(_)
SplitOnSpaces(s) ==
  LET i == SkipNonSpaces(s, 1)
  IN  IF i <= Len(s)
        THEN <<SubSeq(s, 1, i - 1)>> \o SplitOnSpaces(From(s, SkipSpaces(s, i)))
        ELSE <<s>>

\* Array.prototype.join(" ")
RECURSIVE JoinWithSpace(_)
JoinWithSpace(parts) ==
  IF parts = <<>> THEN <<>>
  ELSE IF Len(parts) = 1 THEN parts[1]
  ELSE parts[1] \o <<" ">> \o JoinWithSpace(Tail(parts))

kwAnd ==
  <<"a","n","d">>

\* a separator of /and|,/ (equally /,|and/) stands at position i: its length, else 0
SeparatorAt(s, i) ==
  IF LitAt(s, i, kwAnd) THEN 3
  ELSE IF LitAt(s, i, <<",">>) THEN 1
  ELSE 0

\* String.prototype.split(/and|,/) and split(/,|and/): the pattern carries no
\* word boundary and no flag i
\* the first position >= i where a separator stands, else 0
RECURSIVE FirstSeparator(_, _)
FirstSeparator(s, i) ==
  IF i > Len(s) THEN 0
  ELSE IF SeparatorAt(s, i) > 0 THEN i
  ELSE FirstSeparator(s, i + 1)

RECURSIVE SplitAndComma(_)
SplitAndComma(s) ==
  LET i == FirstSeparator(s, 1)
  IN  IF i > 0
        THEN <<SubSeq(s, 1, i - 1)>> \o SplitAndComma(From(s, i + SeparatorAt(s, i)))
        ELSE <<s>>

-----------------------------------------------------------------------------
(* Field aliases                                                           *)

kwShow == <<"s","h","o","w">>
kwAll == <<"a","l","l">>
kwLogs == <<"l","o","g","s">>
kwList == <<"l","i","s","t">>
kwFind == <<"f","i","n","d">>
kwUnique == <<"u","n","i","q","u","e">>
kwFor == <<"f","o","r">>
kwWith == <<"w","i","t","h">>
kwWhere == <<"w","h","e","r","e">>
kwHaving == <<"h","a","v","i","n","g">>
kwExit == <<"e","x","i","t">>
kwQ == <<"q">>

\* the (alias, canonical path) pairs of the table
FIELD_ALIASES ==
  { <<<<"d","e","v","i","c","e","i","d">>,
     <<"D","e","v","i","c","e","I","d">>>>,
    <<<<"o","r","g","a","n","i","z","a","t","i","o","n","i","d">>,
     <<"O","r","g","a","n","i","z","a","t","i","o","n","I","d">>>>,
    <<<<"o","r","g","a","n","i","s","a","t","i","o","n","i","d">>,
     <<"O","r","g","a","n","i","z","a","t","i","o","n","I","d">>>>,
    <<<<"u","s","e","r","i","d">>,
     <<"U","s","e","r","I","d">>>>,
    <<<<"t","a","g","i","d">>,
     <<"T","a","g","I","d">>>>,
    <<<<"t","i","m","e","s","t","a","m","p">>,
     <<"T","i","m","e","s","t","a","m","p">>>>,
    <<<<"d","a","t","e">>,
     <<"D","a","t","e">>>>,
    <<<<"h","o","u","r">>,
     <<"H","o","u","r">>>>,
    <<<<"m","o","n","t","h">>,
     <<"M","o","n","t","h">>>>,
    <<<<"y","e","a","r">>,
     <<"Y","e","a","r">>>>,
    <<<<"i","n","d","e","x">>,
     <<"I","n","d","e","x">>>>,
    <<<<"a","p","p","n","a","m","e">>,
     <<"A","p","p","N","a","m","e">>>>,
    <<<<"l","o","g","l","e","v","e","l">>,
     <<"L","o","g","L","e","v","e","l">>>>,
    <<<<"l","o","g","l","a","b","e","l">>,
     <<"L","o","g","L","a","b","e","l">>>>,
    <<<<"l","o","g","s","u","m","m","a","r","y">>,
     <<"L","o","g","S","u","m","m","a","r","y">>>>,
    <<<<"c","r","e","a","t","e","d","a","t">>,
     <<"C","r","e","a","t","e","d","A","t">>>>,
    <<<<"d","e","v","i","c","e","n","a","m","e">>,
     <<"L","o","g","D","a","t","a",".","D","e","v","i","c","e","N","a","m","e">>>>,
    <<<<"d","e","v","i","c","e","t","y","p","e">>,
     <<"L","o","g","D","a","t","a",".","D","e","v","i","c","e","T","y","p","e">>>>,
    <<<<"m","o","d","e","l">>,
     <<"L","o","g","D","a","t","a",".","M","o","d","e","l">>>>,
    <<<<"l","o","g","g","e","d","e","v","e","n","t">>,
     <<"L","o","g","D","a","t","a",".","L","o","g","g","e","d","E","v","e","n","t">>>>,
    <<<<"m","e","s","s","a","g","e","t","y","p","e">>,
     <<"L","o","g","D","a","t","a",".","M","e","s","s","a","g","e","T","y","p","e">>>>,
    <<<<"s","t","a","t","e">>,
     <<"L","o","g","D","a","t","a",".","S","t","a","t","e">>>>,
    <<<<"s","t","a","t","e","c","o","d","e">>,
     <<"L","o","g","D","a","t","a",".","S","t","a","t","e","C","o","d","e">>>>,
    <<<<"t","a","g">>,
     <<"L","o","g","D","a","t","a",".","T","a","g">>>>,
    <<<<"d","e","s","c","r","i","p","t","i","o","n">>,
     <<"L","o","g","D","a","t","a",".","D","e","s","c","r","i","p","t","i","o","n">>>>,
    <<<<"w","a","r","d">>,
     <<"L","o","g","D","a","t","a",".","W","a","r","d">>>>,
    <<<<"e","p","o","c","h","c","o","u","n","t">>,
     <<"L","o","g","D","a","t","a",".","E","p","o","c","h","C","o","u","n","t">>>>,
    <<<<"e","x","e","c","u","t","i","o","n","d","u","r","a","t","i","o","n">>,
     <<"L","o","g","D","a","t","a",".","E","x","e","c","u","t","i","o","n","D","u","r","a","t","i","o","n">>>>,
    <<<<"t","i","m","e","z","o","n","e">>,
     <<"L","o","g","D","a","t","a",".","T","i","m","e","z","o","n","e">>>>,
    <<<<"r","e","q","u","e","s","t","i","d">>,
     <<"L","o","g","D","a","t","a",".","R","e","q","u","e","s","t","I","d">>>>,
    <<<<"a","l","e","r","t","c","o","d","e">>,
     <<"L","o","g","D","a","t","a",".","T","a","g","D","e","t","a","i","l",".","A","l","e","r","t","C","o","d","e">>>>,
    <<<<"a","l","e","r","t","l","e","v","e","l">>,
     <<"L","o","g","D","a","t","a",".","T","a","g","D","e","t","a","i","l",".","A","l","e","r","t","L","e","v","e","l">>>>,
    <<<<"h","e","a","d","e","r","t","i","m","e">>,
     <<"L","o","g","D","a","t","a",".","T","a","g","D","e","t","a","i","l",".","H","e","a","d","e","r","T","i","m","e">>>>,
    <<<<"k","e","y">>,
     <<"L","o","g","D","a","t","a",".","T","a","g","D","e","t","a","i","l",".","K","e","y">>>>,
    <<<<"t","a","g","d","e","t","a","i","l","m","e","s","s","a","g","e">>,
     <<"L","o","g","D","a","t","a",".","T","a","g","D","e","t","a","i","l",".","M","e","s","s","a","g","e">>>>,
    <<<<"t","a","g","d","e","t","a","i","l","r","e","q","u","e","s","t","i","d">>,
     <<"L","o","g","D","a","t","a",".","T","a","g","D","e","t","a","i","l",".","R","e","q","u","e","s","t","I","d">>>> }

\* what a plain object inherits under a lower-case name: FIELD_ALIASES is an
\* object literal, so these two names read a truthy value that is no string.
\* Each is written as it prints when used as a property key.
InheritedProperties ==
  { <<<<"c","o","n","s","t","r","u","c","t","o","r">>,
     <<"function Object() { [native code] }">>>>,
    <<<<"_","_","p","r","o","t","o","_","_">>,
     <<"[object Object]">>>> }

\* FIELD_ALIASES[name] is truthy
HasAlias(name) ==
  \E e \in FIELD_ALIASES \cup InheritedProperties : e[1] = name

\* FIELD_ALIASES[name]
AliasOf(name) ==
  (CHOOSE e \in FIELD_ALIASES \cup InheritedProperties : e[1] = name)[2]

\* FIELD_ALIASES[token.toLowerCase()] || token
ResolveField(token) ==
  IF HasAlias(ToLowerCase(token)) THEN AliasOf(ToLowerCase(token)) ELSE token

\* ["DeviceId", "OrganizationId", "UserId", "TagId"]
IdentifierFields ==
  { <<"D","e","v","i","c","e","I","d">>,
    <<"O","r","g","a","n","i","z","a","t","i","o","n","I","d">>,
    <<"U","s","e","r","I","d">>,
    <<"T","a","g","I","d">> }

-----------------------------------------------------------------------------
(* Filter predicates and filter mappings                                   *)

\* filters[key] = v
Literal(v) ==
  [kind |-> "literal", text |-> v, options |-> <<>>]

\* filters[key] = { $regex: p, $options: "i" }
Pattern(p) ==
  [kind |-> "regex", text |-> p, options |-> <<"i">>]

\* {}
NoFilters ==
  <<>>

\* filters[key] = pred on an object: a later assignment replaces an earlier one
Put(mapping, key, pred) ==
  [k \in (DOMAIN mapping) \cup {key} |-> IF k = key THEN pred ELSE mapping[k]]

\* [k, v] = cond.split("=").map(s => s.trim().replace(/['"]/g, "")): the
\* pair, an element <<>> standing for a missing (undefined) or empty one
KeyValueOfEquals(cond) ==
  LET parts == SplitOnChar(cond, "=")
      clean(s) == StripQuotes(Trim(s))
  IN  << clean(parts[1]), IF Len(parts) >= 2 THEN clean(parts[2]) ELSE <<>> >>

\* the pair of a sub-clause without "=": first word, rest joined by one space
KeyValueOfWords(token) ==
  LET parts == SplitOnSpaces(Trim(token))
  IN  << parts[1], JoinWithSpace(Tail(parts)) >>

-----------------------------------------------------------------------------
(* Classifier patterns                                                     *)

\* /^show\s+(all\s+)?logs\b/i.test(q.trim())
isShowLogsQuery(q) ==
  LET t == Trim(q)
      j == SkipSpaces(t, 5)
      k == SkipSpaces(t, j + 3)
      logsAt(p) == LitAtCI(t, p, kwLogs) /\ WordBoundary(t, p + 4)
  IN  /\ LitAtCI(t, 1, kwShow)
      /\ j > 5
      /\ \/ LitAtCI(t, j, kwAll) /\ k > j + 3 /\ logsAt(k)
         \/ logsAt(j)

\* question.match(/^list\s+unique\s+(.+)$/i): the position where the group
\* starts, 0 when the line does not match (the line is not trimmed)
UniqueMatch(line) ==
  LET j == SkipSpaces(line, 5)
  IN  IF LitAtCI(line, 1, kwList) /\ j > 5 /\ LitAtCI(line, j, kwUnique)
        THEN RestAfterSpaces(line, j + 6)
        ELSE 0

LeadingVerbAt(s) ==
  LitAtCI(s, 1, kwList) \/ LitAtCI(s, 1, kwShow) \/ LitAtCI(s, 1, kwFind)

\* /^(list|show|find)\b/i.test(question.trim())
IsDirectFieldQuery(line) ==
  LET t == Trim(line)
  IN  LeadingVerbAt(t) /\ WordBoundary(t, 5)

\* q === "exit" || q === "q" for q = question.trim().toLowerCase()
IsExitToken(line) ==
  ToLowerCase(Trim(line)) \in {kwExit, kwQ}

-----------------------------------------------------------------------------
(* extractFiltersOnly                                                      *)

\* (?:for|with|where|having)\s+ under the flag i stands at position i: the
\* length of the keyword, else 0
FilterKeywordAt(s, i) ==
  LET found(w) == LitAtCI(s, i, w) /\ i + Len(w) <= Len(s) /\ IsSpace(s[i + Len(w)])
  IN  IF found(kwFor) THEN 3
      ELSE IF found(kwWith) THEN 4
      ELSE IF found(kwWhere) THEN 5
      ELSE IF found(kwHaving) THEN 6
      ELSE 0

\* query.match(/(?:for|with|where|having)\s+(.*)/i) succeeds: the pattern is
\* not anchored and is tried at every position from the left
RECURSIVE FirstFilterKeyword(_, _)
FirstFilterKeyword(s, i) ==
  IF i > Len(s) THEN 0
  ELSE IF FilterKeywordAt(s, i) > 0 THEN i
  ELSE FirstFilterKeyword(s, i + 1)

HasFilterClause(query) ==
  FirstFilterKeyword(query, 1) > 0

\* filterMatch[1]
FilterClause(query) ==
  LET i == FirstFilterKeyword(query, 1)
  IN  From(query, SkipSpaces(query, i + FilterKeywordAt(query, i)))

\* extractFiltersOnly without the identifier-field branch
AnchoredPredicateAlways(key, v) ==
  Pattern(<<"^">> \o v \o <<"$">>)

\* the predicate extractFiltersOnly stores for a resolved key and a value
AnchoredPredicate(key, v) ==
  IF key \in IdentifierFields
    THEN Literal(v)
    ELSE Pattern(<<"^">> \o v \o <<"$">>)

\* the forEach over the sub-clauses without the test of the value
RECURSIVE FiltersOnlyOfKeepEmpty(_, _)
FiltersOnlyOfKeepEmpty(conds, acc) ==
  IF conds = <<>> THEN acc
  ELSE LET kv == KeyValueOfEquals(Head(conds))
           key == ResolveField(kv[1])
       IN  IF kv[1] # <<>>
             THEN FiltersOnlyOfKeepEmpty(Tail(conds), Put(acc, key, AnchoredPredicate(key, kv[2])))
             ELSE FiltersOnlyOfKeepEmpty(Tail(conds), acc)

\* one pass of the forEach over the sub-clauses, from the left
RECURSIVE FiltersOnlyOf(_, _)
FiltersOnlyOf(conds, acc) ==
  IF conds = <<>> THEN acc
  ELSE LET kv == KeyValueOfEquals(Head(conds))
           k == kv[1]
           v == kv[2]
           key == ResolveField(k)
       IN  IF k # <<>> /\ v # <<>>
             THEN FiltersOnlyOf(Tail(conds), Put(acc, key, AnchoredPredicate(key, v)))
             ELSE FiltersOnlyOf(Tail(conds), acc)

extractFiltersOnly(query) ==
  IF HasFilterClause(query)
    THEN FiltersOnlyOf(SplitAndComma(FilterClause(query)), NoFilters)
    ELSE NoFilters

-----------------------------------------------------------------------------
(* extractFieldsAndFilters                                                 *)

\* (?:\s+(?:where|with|having|for)\s+(.+))?$ tried at position p: the position
\* where the second group starts, 0 when the optional group does not match
FilterTailAt(s, p) ==
  LET q == IF p <= Len(s) /\ IsSpace(s[p]) THEN SkipSpaces(s, p) ELSE p
      tail(w) == IF LitAtCI(s, q, w) THEN RestAfterSpaces(s, q + Len(w)) ELSE 0
  IN  IF q = p THEN 0
      ELSE IF tail(kwWhere) > 0 THEN tail(kwWhere)
      ELSE IF tail(kwWith) > 0 THEN tail(kwWith)
      ELSE IF tail(kwHaving) > 0 THEN tail(kwHaving)
      ELSE tail(kwFor)

\* ^(?:list|show|find)\s+ : the position where the first group starts, 0 when
\* the line does not match.  The verb must open the line as given (the line is
\* not trimmed); \s+ gives one character back when only whitespace follows.
FieldsStart(query) ==
  IF LeadingVerbAt(query) THEN RestAfterSpaces(query, 5) ELSE 0

\* the last position of the lazy first group (.+?): the shortest one after
\* which the optional filter group matches, else the end of the line
RECURSIVE ShortestFields(_, _)
ShortestFields(s, e) ==
  IF e >= Len(s) THEN Len(s)
  ELSE IF FilterTailAt(s, e + 1) > 0 THEN e
  ELSE ShortestFields(s, e + 1)

FieldsEnd(query) ==
  ShortestFields(query, FieldsStart(query))

\* match[1]
RawFields(query) ==
  SubSeq(query, FieldsStart(query), FieldsEnd(query))

\* match[2], <<>> when the optional group did not take part
RawFilter(query) ==
  LET g == FilterTailAt(query, FieldsEnd(query) + 1)
  IN  IF g > 0 THEN From(query, g) ELSE <<>>

\* one pass of the forEach over the field tokens, from the left
RECURSIVE FieldsOf(_)
FieldsOf(tokens) ==
  IF tokens = <<>> THEN <<>>
  ELSE LET cleaned == StripNonFieldChars(Trim(Head(tokens)))
       IN  IF cleaned # <<>>
             THEN <<ResolveField(cleaned)>> \o FieldsOf(Tail(tokens))
             ELSE FieldsOf(Tail(tokens))

\* the predicate extractFieldsAndFilters stores for a resolved key and a value
UnanchoredPredicate(key, v) ==
  IF key \in IdentifierFields
    THEN Literal(v)
    ELSE Pattern(v)

\* one pass of the forEach over the filter tokens, from the left
RECURSIVE FiltersOf(_, _)
FiltersOf(tokens, acc) ==
  IF tokens = <<>> THEN acc
  ELSE LET token == Head(tokens)
           kv == IF \E i \in 1..Len(token) : token[i] = "="
                   THEN KeyValueOfEquals(token)
                   ELSE KeyValueOfWords(token)
           key == kv[1]
           value == kv[2]
           resolvedKey == ResolveField(key)
       IN  IF key # <<>> /\ value # <<>>
             THEN FiltersOf(Tail(tokens),
                            Put(acc, resolvedKey, UnanchoredPredicate(resolvedKey, value)))
             ELSE FiltersOf(Tail(tokens), acc)

extractFieldsAndFilters(query) ==
  IF FieldsStart(query) > 0
    THEN [fields  |-> FieldsOf(SplitAndComma(RawFields(query))),
          filters |-> IF RawFilter(query) # <<>>
                        THEN FiltersOf(SplitAndComma(RawFilter(query)), NoFilters)
                        ELSE NoFilters]
    ELSE [fields |-> <<>>, filters |-> NoFilters]

-----------------------------------------------------------------------------
(* Input lines                                                             *)

\* full dump without filter: show logs
qShowLogs ==
  <<"s","h","o","w"," ","l","o","g","s">>

\* full dump, mixed case and a double space: Show  All LOGS
qShowAllLogsCaps ==
  <<"S","h","o","w"," "," ","A","l","l"," ","L","O","G","S">>

\* documented example, scenario C: show logs for deviceid=ABC123
qShowLogsDevice ==
  <<"s","h","o","w"," ","l","o","g","s"," ","f","o","r"," ","d","e","v","i","c","e","i","d","=","A","B","C","1","2","3">>

\* documented example, two sub-clauses: show logs where ward=ICU and state=error
qShowLogsWardState ==
  <<"s","h","o","w"," ","l","o","g","s"," ","w","h","e","r","e"," ","w","a","r","d","=","I","C","U"," ","a","n","d"," ","s","t","a","t","e","=","e","r","r","o","r">>

\* quoted identifier value: SHOW LOGS FOR DeviceId='abc'
qShowLogsQuoted ==
  <<"S","H","O","W"," ","L","O","G","S"," ","F","O","R"," ","D","e","v","i","c","e","I","d","=","'","a","b","c","'">>

\* identifier value holding the letters and: show logs for deviceid=band1
qShowLogsBand ==
  <<"s","h","o","w"," ","l","o","g","s"," ","f","o","r"," ","d","e","v","i","c","e","i","d","=","b","a","n","d","1">>

\* comma between two sub-clauses: show logs with tagid=T1,loglevel=info
qShowLogsTagLevel ==
  <<"s","h","o","w"," ","l","o","g","s"," ","w","i","t","h"," ","t","a","g","i","d","=","T","1",",","l","o","g","l","e","v","e","l","=","i","n","f","o">>

\* sub-clause with an empty value: show logs for state=
qShowLogsEmptyValue ==
  <<"s","h","o","w"," ","l","o","g","s"," ","f","o","r"," ","s","t","a","t","e","=">>

\* one sub-clause with an empty quoted value, one with a value:
\* show logs for state='' and ward=ICU
qShowLogsEmptyAndWard ==
  <<"s","h","o","w"," ","l","o","g","s"," ","f","o","r"," ","s","t","a","t","e","=","'","'"," ","a","n","d"," ","w","a","r","d","=","I","C","U">>

\* full dump with surrounding spaces:  show logs 
qShowLogsPadded ==
  <<" ","s","h","o","w"," ","l","o","g","s"," ">>

\* no word boundary after logs: show logsx
qShowLogsx ==
  <<"s","h","o","w"," ","l","o","g","s","x">>

\* documented example, scenario B: list unique ward
qListUniqueWard ==
  <<"l","i","s","t"," ","u","n","i","q","u","e"," ","w","a","r","d">>

\* unique values, upper case and punctuation: LIST UNIQUE Model!
qListUniqueCaps ==
  <<"L","I","S","T"," ","U","N","I","Q","U","E"," ","M","o","d","e","l","!">>

\* unique values with a leading space:  list unique ward
qListUniquePadded ==
  <<" ","l","i","s","t"," ","u","n","i","q","u","e"," ","w","a","r","d">>

\* documented example, scenario A: list deviceid and model
qListDeviceModel ==
  <<"l","i","s","t"," ","d","e","v","i","c","e","i","d"," ","a","n","d"," ","m","o","d","e","l">>

\* fields and a pattern filter: list deviceid, model where ward=ICU
qListCommaWhere ==
  <<"l","i","s","t"," ","d","e","v","i","c","e","i","d",","," ","m","o","d","e","l"," ","w","h","e","r","e"," ","w","a","r","d","=","I","C","U">>

\* fields and an identifier filter: list model where deviceid=ABC123
qListWhereDevice ==
  <<"l","i","s","t"," ","m","o","d","e","l"," ","w","h","e","r","e"," ","d","e","v","i","c","e","i","d","=","A","B","C","1","2","3">>

\* identifier value holding the letters and: list model where userid=sandy
qListWhereSandy ==
  <<"l","i","s","t"," ","m","o","d","e","l"," ","w","h","e","r","e"," ","u","s","e","r","i","d","=","s","a","n","d","y">>

\* field name holding the letters and: list brand
qListBrand ==
  <<"l","i","s","t"," ","b","r","a","n","d">>

\* filter sub-clause with an empty value: list model where ward=
qListWhereEmpty ==
  <<"l","i","s","t"," ","m","o","d","e","l"," ","w","h","e","r","e"," ","w","a","r","d","=">>

\* filter sub-clause without =: find model for state error
qFindForWords ==
  <<"f","i","n","d"," ","m","o","d","e","l"," ","f","o","r"," ","s","t","a","t","e"," ","e","r","r","o","r">>

\* verb without fields: list
qList ==
  <<"l","i","s","t">>

\* field part without field characters: list !!!
qListBang ==
  <<"l","i","s","t"," ","!","!","!">>

\* structured list with a leading space:  list deviceid
qListPadded ==
  <<" ","l","i","s","t"," ","d","e","v","i","c","e","i","d">>

\* field named as an inherited property: list constructor
qListConstructor ==
  <<"l","i","s","t"," ","c","o","n","s","t","r","u","c","t","o","r">>

\* documented natural-language example: Show me logs for device ABC123
qShowMeLogs ==
  <<"S","h","o","w"," ","m","e"," ","l","o","g","s"," ","f","o","r"," ","d","e","v","i","c","e"," ","A","B","C","1","2","3">>

\* documented natural-language example: Find logs related to alert codes
qFindLogs ==
  <<"F","i","n","d"," ","l","o","g","s"," ","r","e","l","a","t","e","d"," ","t","o"," ","a","l","e","r","t"," ","c","o","d","e","s">>

\* documented example, scenario D: What errors occurred yesterday?
qWhatErrors ==
  <<"W","h","a","t"," ","e","r","r","o","r","s"," ","o","c","c","u","r","r","e","d"," ","y","e","s","t","e","r","d","a","y","?">>

\* documented example: What's the status of devices in Ward 5?
qWardStatus ==
  <<"W","h","a","t","'","s"," ","t","h","e"," ","s","t","a","t","u","s"," ","o","f"," ","d","e","v","i","c","e","s"," ","i","n"," ","W","a","r","d"," ","5","?">>

\* documented example: Which devices had connection issues?
qConnectionIssues ==
  <<"W","h","i","c","h"," ","d","e","v","i","c","e","s"," ","h","a","d"," ","c","o","n","n","e","c","t","i","o","n"," ","i","s","s","u","e","s","?">>

\* documented special command: deviceid "ABC123"
qDeviceLookup ==
  <<"d","e","v","i","c","e","i","d"," ","\"","A","B","C","1","2","3","\"">>

\* verb as the prefix of a longer word: listing devices
qListing ==
  <<"l","i","s","t","i","n","g"," ","d","e","v","i","c","e","s">>

\* not an exit token: quit
qQuit ==
  <<"q","u","i","t">>

\* exit token: exit
qExit ==
  <<"e","x","i","t">>

\* exit token, upper case and padded:  EXIT 
qExitPadded ==
  <<" ","E","X","I","T"," ">>

\* exit token: Q
qQ ==
  <<"Q">>

\* the lines a user types at the prompt
Questions ==
  { qShowLogs, qShowAllLogsCaps, qShowLogsDevice, qShowLogsWardState,
    qShowLogsQuoted, qShowLogsBand, qShowLogsTagLevel, qShowLogsEmptyValue,
    qShowLogsEmptyAndWard,
    qShowLogsPadded, qShowLogsx, qListUniqueWard, qListUniqueCaps,
    qListUniquePadded, qListDeviceModel, qListCommaWhere, qListWhereDevice,
    qListWhereSandy, qListBrand, qListWhereEmpty, qFindForWords,
    qList, qListBang, qListPadded, qListConstructor,
    qShowMeLogs, qFindLogs, qWhatErrors, qWardStatus,
    qConnectionIssues, qDeviceLookup,
    qListing, qQuit, qExit, qExitPadded,
    qQ }

-----------------------------------------------------------------------------
(* Bounds                                                                  *)

\* number of lines read in one session
MaxTurns ==
  2

\* number of records (or distinct values) a storage operation answers with,
\* each of them there or left out
MaxDocs ==
  2

\* number of records of a large collection that match a lookup: more than
\* every limit the code passes
MaxMatches ==
  101

\* number of records the collection holds when an ingestion run starts
MaxStored ==
  3

\* number of ingestion runs started one after the other
MaxRuns ==
  2

-----------------------------------------------------------------------------
(* Collaborators: what storage and the two services answer                 *)

\* how many records of a large collection match: one more than the limit of
\* the similarity search, of the full dump and of the projected find
LargeCounts ==
  { 16, 51, MaxMatches }

\* the records a lookup matches, before any limit: records 1..MaxDocs of the
\* collection in storage order, any of them left out, or the first n records
\* of a large collection
ResultLists ==
  { r \in UNION {[1..n -> 1..MaxDocs] : n \in 0..MaxDocs} :
      \A i, j \in DOMAIN r : i < j => r[i] < r[j] }
    \cup { [i \in 1..n |-> i] : n \in LargeCounts }

\* err.message of an error thrown by the storage client
StorageErrorMessages ==
  { "connect ECONNREFUSED 127.0.0.1:27017", "read ECONNRESET" }

\* err.message of an error thrown by the HTTP client of the two services
ServiceErrorMessages ==
  { "Request failed with status code 500", "read ECONNRESET" }

\* res.data.embedding: a vector, or undefined when the answer has no such field
EmbeddingAnswers ==
  { "vector", "undefined" }

-----------------------------------------------------------------------------
(* Records of the collection                                               *)

\* names of the properties of a record that the code reads
fId ==
  <<"_","i","d">>

fDeviceId ==
  <<"D","e","v","i","c","e","I","d">>

fLogSummary ==
  <<"L","o","g","S","u","m","m","a","r","y">>

fLogData ==
  <<"L","o","g","D","a","t","a">>

fState ==
  <<"S","t","a","t","e">>

fModel ==
  <<"M","o","d","e","l">>

fWard ==
  <<"W","a","r","d">>

fTimestamp ==
  <<"T","i","m","e","s","t","a","m","p">>

fEmbedding ==
  <<"e","m","b","e","d","d","i","n","g">>

\* the values a property holds: text is the content of a string
StringValue(t) ==
  [type |-> "string", text |-> t]

ObjectValue ==
  [type |-> "object", text |-> ""]

VectorValue ==
  [type |-> "vector", text |-> ""]

NullValue ==
  [type |-> "null", text |-> ""]

\* what reading a property that is not there gives
Undefined ==
  [type |-> "undefined", text |-> ""]

\* the kinds of record the collection holds, each a mapping from the path of
\* a property to its value: a record with its nested LogData object and its
\* embedding; one not yet embedded and without LogData; one whose LogData is
\* null
RecordKinds ==
  << ( <<fId>> :> StringValue("665f1c0a") ) @@
     ( <<fDeviceId>> :> StringValue("ABC123") ) @@
     ( <<fLogSummary>> :> StringValue("Pump alarm raised") ) @@
     ( <<fLogData>> :> ObjectValue ) @@
     ( <<fLogData, fState>> :> StringValue("error") ) @@
     ( <<fLogData, fModel>> :> StringValue("X1") ) @@
     ( <<fLogData, fWard>> :> StringValue("ICU") ) @@
     ( <<fTimestamp>> :> StringValue("2024-05-01T10:00:00Z") ) @@
     ( <<fEmbedding>> :> VectorValue ),
     ( <<fId>> :> StringValue("665f1c0b") ) @@
     ( <<fDeviceId>> :> StringValue("XYZ789") ) @@
     ( <<fLogSummary>> :> StringValue("Battery low") ) @@
     ( <<fTimestamp>> :> StringValue("2024-05-02T11:30:00Z") ),
     ( <<fId>> :> StringValue("665f1c0c") ) @@
     ( <<fDeviceId>> :> StringValue("ABC123") ) @@
     ( <<fLogData>> :> NullValue ) @@
     ( <<fTimestamp>> :> StringValue("2024-05-03T09:15:00Z") ) @@
     ( <<fEmbedding>> :> VectorValue ) >>

\* the i-th record of the collection
Record(i) ==
  RecordKinds[((i - 1) % Len(RecordKinds)) + 1]

\* the collection a chatbot session reads: one record of each kind
StoredRecords ==
  RecordKinds

\* the path a is the start of the path b
IsPrefix(a, b) ==
  Len(a) <= Len(b) /\ SubSeq(b, 1, Len(a)) = a

\* what find answers for a record under { projection }: with no key the whole
\* record, else _id, the projected paths and the objects that lead to them
Project(doc, projection) ==
  IF projection = {} THEN doc
  ELSE LET wanted == {SplitOnChar(f, ".") : f \in projection}
           kept == {p \in DOMAIN doc :
                      \/ p = <<fId>>
                      \/ \E w \in wanted : IsPrefix(w, p)
                      \/ \E w \in wanted : IsPrefix(p, w) /\ doc[p].type = "object"}
       IN  [p \in kept |-> doc[p]]

\* the records a lookup answers for the record numbers ids
RecordsOf(ids, projection) ==
  [i \in DOMAIN ids |-> Project(Record(ids[i]), projection)]

\* a lookup that ignores the limit it was given
LimitedNever(docs, limit) ==
  docs

\* .limit(n) of a cursor and limit of $vectorSearch: at most the first n of
\* the records matched, all of them for n = 0
Limited(docs, limit) ==
  IF limit > 0 /\ Len(docs) > limit THEN SubSeq(docs, 1, limit) ELSE docs

\* what a storage operation answers when it matched docs: find and aggregate
\* cut at their limit, distinct has none
AnswerOf(call, docs) ==
  IF call.op = "distinct" THEN docs ELSE Limited(docs, call.arg.limit)

-----------------------------------------------------------------------------
(* Boundary calls, as issued                                               *)

ConnectCall ==
  [op |-> "connect", arg |-> [uri |-> "MONGO_URI"], result |-> "pending"]

CloseCall ==
  [op |-> "close", arg |-> [uri |-> "MONGO_URI"], result |-> "pending"]

\* a lookup that stamps the first record of the collection as read
FindCallMarking(filter, projection, limit) ==
  [op |-> "updateOne",
   arg |-> [filter |-> filter, projection |-> projection, limit |-> limit,
            id |-> RecordKinds[1][<<fId>>],
            set |-> (<<fEmbedding>> :> NullValue)],
   result |-> "pending"]

\* collection.find(filter, { projection }).limit(limit).toArray()
FindCall(filter, projection, limit) ==
  [op |-> "find",
   arg |-> [filter |-> filter, projection |-> projection, limit |-> limit],
   result |-> "pending"]

\* collection.distinct(field)
DistinctCall(field) ==
  [op |-> "distinct", arg |-> [field |-> field], result |-> "pending"]

\* a stage that carries a filter key whatever the mapping holds
AggregateCallAlwaysFiltered(queryVector, filter) ==
  [op |-> "aggregate",
   arg |-> [index |-> "vector_index", path |-> "embedding",
            queryVector |-> queryVector, numCandidates |-> 100,
            similarity |-> "cosine", limit |-> 15,
            hasFilter |-> TRUE, filter |-> filter],
   result |-> "pending"]

\* collection.aggregate([{ $vectorSearch: ... }]).toArray()
AggregateCall(queryVector, filter) ==
  [op |-> "aggregate",
   arg |-> [index |-> "vector_index", path |-> "embedding",
            queryVector |-> queryVector, numCandidates |-> 100,
            similarity |-> "cosine", limit |-> 15,
            hasFilter |-> (DOMAIN filter # {}), filter |-> filter],
   result |-> "pending"]

\* collection.updateOne({ _id: id }, { $set: fieldsSet })
UpdateOneCall(id, fieldsSet) ==
  [op |-> "updateOne", arg |-> [id |-> id, set |-> fieldsSet], result |-> "pending"]

\* the collection after a storage operation was carried out: updateOne sets
\* the fields of $set on the first record with that _id, if there is one, and
\* leaves every other field and record alone; find, distinct and an
\* aggregate whose only stage is $vectorSearch read
Written(coll, call) ==
  IF call.op = "updateOne"
    THEN LET hits == {i \in DOMAIN coll : coll[i][<<fId>>] = call.arg.id}
         IN  [i \in DOMAIN coll |->
                IF i \in hits /\ \A j \in hits : i <= j
                  THEN call.arg.set @@ coll[i]
                  ELSE coll[i]]
    ELSE coll

\* axios.post(OLLAMA_URL/api/embeddings, { model, prompt })
EmbedCall(text) ==
  [op |-> "embed", arg |-> [model |-> "nomic-embed-text", prompt |-> text],
   result |-> "pending"]

\* axios.post(OLLAMA_URL/api/generate, { model, prompt, stream: false })
GenerateCall(context, text) ==
  [op |-> "generate",
   arg |-> [model |-> "mistral", context |-> context, question |-> text, stream |-> FALSE],
   result |-> "pending"]

\* a call log in which no call is ever marked as answered, as if the next
\* call were issued without awaiting the one before
AnsweredNever(cs, r) ==
  cs

\* the call in flight gets its answer
Answered(cs, r) ==
  [cs EXCEPT ![Len(cs)].result = r]

-----------------------------------------------------------------------------
(* Turn logic of main                                                      *)

\* the if-chain with the leading-verb test moved to the front
IntentVerbFirst(q) ==
  IF IsDirectFieldQuery(q) THEN "structured-list"
  ELSE IF isShowLogsQuery(q) THEN "show-all-logs"
  ELSE IF UniqueMatch(q) > 0 THEN "list-unique-field"
  ELSE "semantic-fallback"

\* the if-chain of the turn: the first test that passes takes the turn
Intent(q) ==
  IF isShowLogsQuery(q) THEN "show-all-logs"
  ELSE IF UniqueMatch(q) > 0 THEN "list-unique-field"
  ELSE IF IsDirectFieldQuery(q) THEN "structured-list"
  ELSE "semantic-fallback"

\* the list-unique branch without the alias lookup
UniqueFieldUnresolved(q) ==
  StripNonFieldChars(Trim(From(q, UniqueMatch(q))))

\* rawField and field of the list-unique branch
UniqueField(q) ==
  ResolveField(StripNonFieldChars(Trim(From(q, UniqueMatch(q)))))

\* a filter value is truthy: an object always, a string when not empty
Truthy(pred) ==
  pred.kind = "regex" \/ pred.text # <<>>

\* cleanFilters of queryMongo
CleanFilters(fs) ==
  [k \in {x \in DOMAIN fs : Truthy(fs[x])} |-> fs[k]]

\* projection of queryMongo: the keys set to 1
Projection(fs) ==
  Range(fs)

\* doc.name
Top(doc, name) ==
  IF <<name>> \in DOMAIN doc THEN doc[<<name>>] ELSE Undefined

\* doc?.outer?.name
Nested(doc, outer, name) ==
  IF Top(doc, outer).type = "object" /\ <<outer, name>> \in DOMAIN doc
    THEN doc[<<outer, name>>]
    ELSE Undefined

\* ${v} in a template literal
Interpolated(v) ==
  CASE v.type = "undefined" -> "undefined"
    [] v.type = "null"      -> "null"
    [] v.type = "object"    -> "[object Object]"
    [] OTHER                -> v.text

\* one line of the context: the fixed text of the template and the value
\* interpolated after it
Line(label, text) ==
  [label |-> label, text |-> text]

\* the empty line that "\n\n" leaves between two blocks
BlankLine ==
  Line("", "")

\* the template of one record, i counting from 1: the header and six lines
Block(doc, i) ==
  << Line("# Log ", ToString(i)),
     Line("DeviceId: ", Interpolated(Top(doc, fDeviceId))),
     Line("Summary: ", Interpolated(Top(doc, fLogSummary))),
     Line("State: ", Interpolated(Nested(doc, fLogData, fState))),
     Line("Model: ", Interpolated(Nested(doc, fLogData, fModel))),
     Line("Ward: ", Interpolated(Nested(doc, fLogData, fWard))),
     Line("Timestamp: ", Interpolated(Top(doc, fTimestamp))) >>

\* blocks put one after the other with nothing between them
RECURSIVE JoinBlocksWithoutBlank(_)
JoinBlocksWithoutBlank(blocks) ==
  IF blocks = <<>> THEN <<>>
  ELSE Head(blocks) \o JoinBlocksWithoutBlank(Tail(blocks))

\* .join("\n\n"): the empty text for no block
RECURSIVE JoinBlocks(_)
JoinBlocks(blocks) ==
  IF blocks = <<>> THEN <<>>
  ELSE IF Len(blocks) = 1 THEN Head(blocks)
  ELSE Head(blocks) \o <<BlankLine>> \o JoinBlocks(Tail(blocks))

\* a context assembler that writes a block even for an empty list
formatContextNeverEmpty(docs) ==
  IF docs = <<>>
    THEN Block(<<>>, 0)
    ELSE JoinBlocks([i \in DOMAIN docs |-> Block(docs[i], i)])

\* formatContext: the lines of the context, one block per record in order
formatContext(docs) ==
  JoinBlocks([i \in DOMAIN docs |-> Block(docs[i], i)])

NoOutcome ==
  [kind |-> "none", text |-> ""]

\* a catch block that issues the failed call once more
CallsAfterThrowRetry(cs) ==
  Answered(cs, "fail") \o <<[cs[Len(cs)] EXCEPT !.result = "pending"]>>

\* the call in flight throws and control passes to the catch block, which
\* issues no call of its own
CallsAfterThrow(cs) ==
  Answered(cs, "fail")

\* a catch block that reports the failure as an empty result
ErrorOutcomeAsNoResults(message) ==
  [kind |-> "no_results", text |-> "No matching logs found."]

\* console.error("Error:", err.message) of the catch block
ErrorOutcome(message) ==
  [kind |-> "error", text |-> message]

\* a catch block that rethrows and so leaves the loop
AfterCatchRethrow ==
  "done"

\* where the catch block leaves the loop: at the next prompt
AfterCatch ==
  "prompt"

\* a dump that prints the record as found
WithoutEmbeddingKept(doc) ==
  doc

\* const { embedding, ...docWithoutEmbedding } = doc
WithoutEmbedding(doc) ==
  [p \in {x \in DOMAIN doc : x[1] # fEmbedding} |-> doc[p]]

\* the blocks the show-all-logs branch prints, one per record
DumpPrinted(docs) ==
  [i \in DOMAIN docs |-> WithoutEmbedding(docs[i])]

\* what the show-all-logs branch prints for its records
DumpOutcome(docs) ==
  IF Len(docs) = 0
    THEN [kind |-> "no_results", text |-> "No matching logs found."]
    ELSE [kind |-> "dump", text |-> "Log"]

\* what the list-unique branch prints for its values
UniqueOutcome(values) ==
  IF Len(values) = 0
    THEN [kind |-> "no_results", text |-> "No unique values found for"]
    ELSE [kind |-> "values", text |-> "Unique values for"]

\* a field of the list is a string: f.includes exists
IsString(f) ==
  f \notin {e[2] : e \in InheritedProperties}

\* a value is truthy
TruthyValue(v) ==
  v.type \in {"object", "vector"} \/ (v.type = "string" /\ v.text # "")

\* for (const p of parts) val = val && val[p], val standing at the path at
RECURSIVE Walk(_, _, _, _)
Walk(doc, at, val, parts) ==
  IF parts = <<>> \/ ~TruthyValue(val) THEN val
  ELSE LET next == at \o <<Head(parts)>>
       IN  IF val.type = "object" /\ next \in DOMAIN doc
             THEN Walk(doc, next, doc[next], Tail(parts))
             ELSE Undefined

\* val ?? ""
OrEmpty(v) ==
  IF v.type \in {"undefined", "null"} THEN StringValue("") ELSE v

\* the cell of one record for one field
Cell(doc, f) ==
  IF "." \in Range(f)
    THEN OrEmpty(Walk(doc, <<>>, ObjectValue, SplitOnChar(f, ".")))
    ELSE OrEmpty(Top(doc, f))

\* rows = results.map(res => fields.map(f => ...))
Rows(docs, fs) ==
  [i \in DOMAIN docs |-> [j \in DOMAIN fs |-> Cell(docs[i], fs[j])]]

\* the rows the direct-field branch prints; none when building them throws
TablePrinted(docs, fs) ==
  IF \A j \in DOMAIN fs : IsString(fs[j]) THEN Rows(docs, fs) ELSE <<>>

\* what the direct-field branch prints for its records: f.includes throws a
\* TypeError for a field that is no string, which the catch block reports
TableOutcome(docs, fs) ==
  IF Len(docs) = 0
    THEN [kind |-> "no_results", text |-> "No matching logs found."]
  ELSE IF \E j \in DOMAIN fs : ~IsString(fs[j])
    THEN ErrorOutcome("f.includes is not a function")
  ELSE [kind |-> "table", text |-> "table"]

\* a branch that reports the missing fields as an error
GuidanceOutcomeAsError ==
  [kind |-> "error", text |-> "Please specify fields to list"]

\* what the direct-field branch prints when no field was extracted
GuidanceOutcome ==
  [kind |-> "guidance", text |-> "Please specify fields to list"]

\* a fallback branch that prints nothing
AnswerOutcomeSilent ==
  [kind |-> "none", text |-> ""]

\* console.log of the generated answer
AnswerOutcome ==
  [kind |-> "answer", text |-> "GPT"]

\* the storage operation each branch issues once connected
StorageCall(in, fs, flt, emb) ==
  CASE in = "show-all-logs"     -> FindCall(flt, {}, 50)
    [] in = "list-unique-field" -> DistinctCall(fs[1])
    [] in = "structured-list"   -> FindCall(CleanFilters(flt), Projection(fs), 100)
    [] OTHER                    -> AggregateCall(emb, NoFilters)

\* what a turn computes from its line before its first await: whether the
\* line ends the session, else the branch taken and the fields and filters
\* that branch extracts
Parse(q) ==
  LET in == Intent(q)
      ex == extractFieldsAndFilters(q)
  IN  IF IsExitToken(q)
        THEN [exit |-> TRUE, intent |-> "none", fields |-> <<>>, filters |-> NoFilters]
      ELSE IF in = "show-all-logs"
        THEN [exit |-> FALSE, intent |-> in, fields |-> <<>>,
              filters |-> extractFiltersOnly(q)]
      ELSE IF in = "list-unique-field"
        THEN [exit |-> FALSE, intent |-> in, fields |-> <<UniqueField(q)>>,
              filters |-> NoFilters]
      ELSE IF in = "structured-list"
        THEN [exit |-> FALSE, intent |-> in, fields |-> ex.fields, filters |-> ex.filters]
      ELSE [exit |-> FALSE, intent |-> in, fields |-> <<>>, filters |-> NoFilters]


\* Parse of every line of Questions, computed once
ParsedLines ==
  {[line |-> q, turn |-> Parse(q)] : q \in Questions}

-----------------------------------------------------------------------------
(* State                                                                   *)

VARIABLES
  pc,               \* where main stands: at the prompt, awaiting a call, or done
  question,         \* the line read by this turn
  intent,           \* the branch this turn took
  fields,           \* the field list of this turn
  filters,          \* the filter mapping of this turn
  embedding,        \* the embedding of this turn: "none", "vector" or "undefined"
  results,          \* what the storage operation of this turn answered
  calls,            \* the boundary calls issued since the line was read, in order
  openConnections,  \* storage clients connected and not closed
  outcome,          \* what this turn printed as its result
  printed,          \* the records, rows or values this turn displayed
  turns,            \* lines read so far
  collection,       \* the stored collection: its records in natural order
  stage,            \* where main of the ingestion stands
  runs,             \* ingestion runs started so far
  clientOpen,       \* the storage client of the ingestion is connected
  cursor,           \* the records the cursor of this run still has to return
  current,          \* _id of the record the loop body holds, 0 for none
  count,            \* let count of this run
  reported,         \* the total this run printed, NotReported before
  attempted,        \* _ids this run requested an embedding for
  updated,          \* _ids this run updated
  embedFailed,      \* _ids whose embedding request failed in this run
  updateFailed,     \* _ids whose update failed in this run
  aborted,          \* the outer catch block of this run ran
  previous          \* how the run before this one went, NoRun for the first

\* the state of the chatbot session
chatVars ==
  <<pc, question, intent, fields, filters, embedding, results, calls,
    openConnections, outcome, printed, turns>>

\* the state of the ingestion script
ingestVars ==
  <<stage, runs, clientOpen, cursor, current, count, reported, attempted,
    updated, embedFailed, updateFailed, aborted, previous>>

vars ==
  <<chatVars, collection, ingestVars>>

\* a loop whose filter mapping is declared outside its body: a turn that
\* extracts no filter keeps the mapping of the turn before
ParseOfKeepingFilters(line) ==
  LET t == (CHOOSE p \in ParsedLines : p.line = line).turn
  IN  [t EXCEPT !.filters = IF t.filters = NoFilters THEN filters ELSE t.filters]

\* what the turn computes from the line it reads, and from nothing else
ParseOf(line) ==
  (CHOOSE p \in ParsedLines : p.line = line).turn

\* the chatbot before its first prompt
ChatIdle ==
  /\ pc = "prompt"
  /\ question = <<>>
  /\ intent = "none"
  /\ fields = <<>>
  /\ filters = NoFilters
  /\ embedding = "none"
  /\ results = <<>>
  /\ calls = <<>>
  /\ openConnections = 0
  /\ outcome = NoOutcome
  /\ printed = <<>>
  /\ turns = 0

\* what reported holds before console.log of the total
NotReported ==
  -1

\* what previous holds during the first run
NoRun ==
  [ran |-> FALSE, updated |-> {}, embedFailed |-> {}, updateFailed |-> {},
   aborted |-> FALSE]

\* the ingestion script before it is started
IngestIdle ==
  /\ stage = "idle"
  /\ runs = 0
  /\ clientOpen = FALSE
  /\ cursor = <<>>
  /\ current = 0
  /\ count = 0
  /\ reported = NotReported
  /\ attempted = {}
  /\ updated = {}
  /\ embedFailed = {}
  /\ updateFailed = {}
  /\ aborted = FALSE
  /\ previous = NoRun

\* a chatbot session over the stored collection; no ingestion runs meanwhile
Init ==
  /\ ChatIdle
  /\ collection = StoredRecords
  /\ IngestIdle

\* readline.question and the code up to the first await of the turn
ReadLine(line) ==
  /\ pc = "prompt"
  /\ turns < MaxTurns
  /\ question' = line
  /\ turns' = turns + 1
  /\ embedding' = "none"
  /\ results' = <<>>
  /\ printed' = <<>>
  /\ UNCHANGED openConnections
  /\ LET turn == ParseOf(line) IN
     IF turn.exit
       THEN /\ pc' = "done"
            /\ intent' = "none"
            /\ fields' = <<>>
            /\ filters' = NoFilters
            /\ calls' = <<>>
            /\ UNCHANGED outcome
       ELSE /\ intent' = turn.intent
            /\ fields' = turn.fields
            /\ filters' = turn.filters
            /\ CASE turn.intent = "structured-list" /\ turn.fields = <<>> ->
                      /\ calls' = <<>>
                      /\ pc' = "prompt"
                      /\ outcome' = GuidanceOutcome
                 [] turn.intent = "semantic-fallback" ->
                      /\ calls' = <<EmbedCall(line)>>
                      /\ pc' = "embedding"
                      /\ outcome' = NoOutcome
                 [] OTHER ->
                      /\ calls' = <<ConnectCall>>
                      /\ pc' = "connecting"
                      /\ outcome' = NoOutcome
  /\ UNCHANGED <<collection, ingestVars>>

\* the embedding request fails: axios throws, the catch block reports
EmbeddingFails(message) ==
  /\ pc = "embedding"
  /\ calls' = CallsAfterThrow(calls)
  /\ outcome' = ErrorOutcome(message)
  /\ pc' = AfterCatch
  /\ UNCHANGED <<question, intent, fields, filters, embedding, results,
                 openConnections, printed, turns>>
  /\ UNCHANGED <<collection, ingestVars>>

\* the embedding service answers; generateEmbedding returns res.data.embedding
\* as it is and searchSimilarLogs starts with it
EmbeddingReturns(answer) ==
  /\ pc = "embedding"
  /\ embedding' = answer
  /\ calls' = Answered(calls, answer) \o <<ConnectCall>>
  /\ pc' = "connecting"
  /\ UNCHANGED <<question, intent, fields, filters, results, openConnections,
                 outcome, printed, turns>>
  /\ UNCHANGED <<collection, ingestVars>>

\* client.connect() throws: nothing was opened
ConnectFails(message) ==
  /\ pc = "connecting"
  /\ calls' = CallsAfterThrow(calls)
  /\ outcome' = ErrorOutcome(message)
  /\ pc' = AfterCatch
  /\ UNCHANGED <<question, intent, fields, filters, embedding, results,
                 openConnections, printed, turns>>
  /\ UNCHANGED <<collection, ingestVars>>

\* client.connect() returns and the storage operation of the branch is issued
ConnectReturns ==
  /\ pc = "connecting"
  /\ openConnections' = openConnections + 1
  /\ calls' = Answered(calls, "ok") \o <<StorageCall(intent, fields, filters, embedding)>>
  /\ pc' = "storage"
  /\ UNCHANGED <<question, intent, fields, filters, embedding, results,
                 outcome, printed, turns>>
  /\ UNCHANGED <<collection, ingestVars>>

\* find, distinct or aggregate throws: client.close() is skipped
StorageFails(message) ==
  /\ pc = "storage"
  /\ calls' = CallsAfterThrow(calls)
  /\ outcome' = ErrorOutcome(message)
  /\ pc' = AfterCatch
  /\ UNCHANGED <<question, intent, fields, filters, embedding, results,
                 openConnections, printed, turns>>
  /\ UNCHANGED <<collection, ingestVars>>

\* find, distinct or aggregate returns and client.close() is issued
StorageReturns(docs) ==
  /\ pc = "storage"
  /\ results' = AnswerOf(calls[Len(calls)], docs)
  /\ calls' = Answered(calls, "ok") \o <<CloseCall>>
  /\ pc' = "closing"
  /\ UNCHANGED <<question, intent, fields, filters, embedding,
                 openConnections, outcome, printed, turns>>
  /\ collection' = Written(collection, calls[Len(calls)])
  /\ UNCHANGED ingestVars

\* client.close() returns: a structured branch prints, the semantic branch
\* formats the context and asks the generation service
CloseReturns ==
  /\ pc = "closing"
  /\ openConnections' = openConnections - 1
  /\ CASE intent = "show-all-logs" ->
            /\ outcome' = DumpOutcome(results)
            /\ printed' = DumpPrinted(RecordsOf(results, {}))
            /\ calls' = Answered(calls, "ok")
            /\ pc' = "prompt"
       [] intent = "list-unique-field" ->
            /\ outcome' = UniqueOutcome(results)
            /\ printed' = results
            /\ calls' = Answered(calls, "ok")
            /\ pc' = "prompt"
       [] intent = "structured-list" ->
            /\ outcome' = TableOutcome(results, fields)
            /\ printed' = TablePrinted(RecordsOf(results, Projection(fields)), fields)
            /\ calls' = Answered(calls, "ok")
            /\ pc' = "prompt"
       [] OTHER ->
            /\ outcome' = outcome
            /\ printed' = printed
            /\ calls' = Answered(calls, "ok")
                          \o <<GenerateCall(formatContext(RecordsOf(results, {})), question)>>
            /\ pc' = "generating"
  /\ UNCHANGED <<question, intent, fields, filters, embedding, results, turns>>
  /\ UNCHANGED <<collection, ingestVars>>

\* the generation request fails: axios throws, the catch block reports
GenerateFails(message) ==
  /\ pc = "generating"
  /\ calls' = CallsAfterThrow(calls)
  /\ outcome' = ErrorOutcome(message)
  /\ pc' = AfterCatch
  /\ UNCHANGED <<question, intent, fields, filters, embedding, results,
                 openConnections, printed, turns>>
  /\ UNCHANGED <<collection, ingestVars>>

\* the generation service answers and the answer is printed
GenerateReturns ==
  /\ pc = "generating"
  /\ calls' = Answered(calls, "ok")
  /\ outcome' = AnswerOutcome
  /\ pc' = "prompt"
  /\ UNCHANGED <<question, intent, fields, filters, embedding, results,
                 openConnections, printed, turns>>
  /\ UNCHANGED <<collection, ingestVars>>

Next ==
  \/ \E line \in Questions : ReadLine(line)
  \/ \E m \in ServiceErrorMessages : EmbeddingFails(m)
  \/ \E a \in EmbeddingAnswers : EmbeddingReturns(a)
  \/ \E m \in StorageErrorMessages : ConnectFails(m)
  \/ ConnectReturns
  \/ \E m \in StorageErrorMessages : StorageFails(m)
  \/ \E docs \in ResultLists : StorageReturns(docs)
  \/ CloseReturns
  \/ \E m \in ServiceErrorMessages : GenerateFails(m)
  \/ GenerateReturns

Spec ==
  Init /\ [][Next]_vars

\* the positions where main stands at an await of a boundary call
Awaiting ==
  {"embedding", "connecting", "storage", "closing", "generating"}

\* the session when every awaited call settles in the end, so that main moves
\* on from the await: at each of these positions an action that returns is
\* enabled, and every action taken there moves pc. The user is free never
\* to type another line
FairSpec ==
  Spec /\ WF_pc(pc \in Awaiting /\ pc' \in Awaiting \cup {"prompt"})

-----------------------------------------------------------------------------------------------------------------------------------------------------
(* Ingestion: ingest-logs.js                                               *)

\* names of the properties that only extractText reads
fOrganizationId ==
  <<"O","r","g","a","n","i","z","a","t","i","o","n","I","d">>

fDescription ==
  <<"D","e","s","c","r","i","p","t","i","o","n">>

fTagDetail ==
  <<"T","a","g","D","e","t","a","i","l">>

fMessage ==
  <<"M","e","s","s","a","g","e">>

fAlertCode ==
  <<"A","l","e","r","t","C","o","d","e">>

fLogLevel ==
  <<"L","o","g","L","e","v","e","l">>

fDeviceType ==
  <<"D","e","v","i","c","e","T","y","p","e">>

fLoggedEvent ==
  <<"L","o","g","g","e","d","E","v","e","n","t">>

fTag ==
  <<"T","a","g">>

\* doc?.a?.b?.c for the path <<a, b, c>>: undefined as soon as a step of the
\* path is missing, null or no object
OptionalChain(doc, path) ==
  IF /\ path \in DOMAIN doc
     /\ \A k \in 1..(Len(path) - 1) :
          /\ SubSeq(path, 1, k) \in DOMAIN doc
          /\ doc[SubSeq(path, 1, k)].type = "object"
    THEN doc[path]
    ELSE Undefined

\* a template literal of parts: a string that is never empty
TemplatePart(label, v) ==
  [kept |-> TRUE, line |-> Line(label, Interpolated(v))]

\* a value put into parts as it is: filter(Boolean) keeps it when truthy
ValuePart(v) ==
  [kept |-> TruthyValue(v), line |-> Line("", Interpolated(v))]

\* parts of extractText, in the order of the array literal
PartsOf(doc) ==
  << TemplatePart("DeviceId: ", Top(doc, fDeviceId)),
     TemplatePart("Org: ", Top(doc, fOrganizationId)),
     ValuePart(Top(doc, fTimestamp)),
     ValuePart(Top(doc, fLogSummary)),
     ValuePart(OptionalChain(doc, <<fLogData, fDescription>>)),
     ValuePart(OptionalChain(doc, <<fLogData, fModel>>)),
     ValuePart(OptionalChain(doc, <<fLogData, fState>>)),
     ValuePart(OptionalChain(doc, <<fLogData, fTagDetail, fMessage>>)),
     ValuePart(OptionalChain(doc, <<fLogData, fTagDetail, fAlertCode>>)),
     ValuePart(Top(doc, fLogLevel)),
     ValuePart(OptionalChain(doc, <<fLogData, fDeviceType>>)),
     ValuePart(OptionalChain(doc, <<fLogData, fWard>>)),
     ValuePart(OptionalChain(doc, <<fLogData, fLoggedEvent>>)),
     ValuePart(OptionalChain(doc, <<fLogData, fTag>>)) >>

\* parts.filter(Boolean)
IsKept(part) ==
  part.kept

\* parts.filter(Boolean).join(" | "): the pieces that " | " separates
extractText(doc) ==
  [k \in DOMAIN SelectSeq(PartsOf(doc), IsKept) |->
     SelectSeq(PartsOf(doc), IsKept)[k].line]

\* !text || !text.trim(): no piece, or one piece of white space only
IsBlankText(pieces) ==
  \/ pieces = <<>>
  \/ Len(pieces) = 1 /\ pieces[1].label = "" /\ pieces[1].text \in {"", " "}

\* { embedding: { $exists: false } }
LacksEmbedding(doc) ==
  <<fEmbedding>> \notin DOMAIN doc

\* a cursor over every record of the collection
FindEveryRecord(coll) ==
  coll

\* collection.find({ embedding: { $exists: false } }): the records the cursor
\* returns, in natural order
FindWithoutEmbedding(coll) ==
  SelectSeq(coll, LacksEmbedding)

\* doc._id
IdOf(doc) ==
  doc[<<fId>>]

\* { $set: { embedding } }
SetEmbedding ==
  <<fEmbedding>> :> VectorValue

\* the i-th record of a collection to ingest: of the kind of Record(i), with
\* an _id of its own, with an embedding or without
StoredRecord(i, embedded) ==
  LET base == (<<fId>> :> StringValue(ToString(i))) @@ Record(i)
  IN  IF embedded THEN SetEmbedding @@ base ELSE WithoutEmbedding(base)

\* the collections an ingestion run may find
IngestCollections ==
  UNION { { [i \in 1..n |-> StoredRecord(i, has[i])] : has \in [1..n -> BOOLEAN] } :
          n \in 0..MaxStored }

\* what current holds outside the loop body
NoRecord ==
  <<>>

\* a per-record catch block that ends the loop
AfterRecordCatchStops ==
  "closing"

\* where main stands after the catch block of the loop body: at the loop
\* condition, cursor.hasNext()
AfterRecordCatch ==
  "cursor"

\* node ingest-logs.js: main is called, client.connect() is awaited
StartRun ==
  /\ stage \in {"idle", "ended"}
  /\ runs < MaxRuns
  /\ runs' = runs + 1
  /\ previous' = IF stage = "ended"
                   THEN [ran |-> TRUE, updated |-> updated,
                         embedFailed |-> embedFailed,
                         updateFailed |-> updateFailed, aborted |-> aborted]
                   ELSE NoRun
  /\ cursor' = <<>>
  /\ current' = NoRecord
  /\ count' = 0
  /\ reported' = NotReported
  /\ attempted' = {}
  /\ updated' = {}
  /\ embedFailed' = {}
  /\ updateFailed' = {}
  /\ aborted' = FALSE
  /\ stage' = "connecting"
  /\ UNCHANGED <<clientOpen, collection, chatVars>>

\* client.connect() throws: the outer catch block, then finally
IngestConnectFails ==
  /\ stage = "connecting"
  /\ aborted' = TRUE
  /\ stage' = "closing"
  /\ UNCHANGED <<runs, clientOpen, cursor, current, count, reported, attempted,
                 updated, embedFailed, updateFailed, previous, collection, chatVars>>

\* client.connect() returns; the cursor is made, count is 0, hasNext is awaited
IngestConnectReturns ==
  /\ stage = "connecting"
  /\ clientOpen' = TRUE
  /\ cursor' = FindWithoutEmbedding(collection)
  /\ count' = 0
  /\ stage' = "cursor"
  /\ UNCHANGED <<runs, current, reported, attempted, updated, embedFailed,
                 updateFailed, aborted, previous, collection, chatVars>>

\* cursor.hasNext() or cursor.next() throws: the outer catch block, then finally
CursorFails ==
  /\ stage = "cursor"
  /\ aborted' = TRUE
  /\ stage' = "closing"
  /\ UNCHANGED <<runs, clientOpen, cursor, current, count, reported, attempted,
                 updated, embedFailed, updateFailed, previous, collection, chatVars>>

\* cursor.hasNext() answers false: the total is printed, then finally
CursorEnds ==
  /\ stage = "cursor"
  /\ cursor = <<>>
  /\ reported' = count
  /\ stage' = "closing"
  /\ UNCHANGED <<runs, clientOpen, cursor, current, count, attempted, updated,
                 embedFailed, updateFailed, aborted, previous, collection, chatVars>>

\* cursor.next() returns a record: a blank text is skipped, else its
\* embedding is requested
CursorReturns ==
  /\ stage = "cursor"
  /\ cursor # <<>>
  /\ current' = Head(cursor)
  /\ cursor' = Tail(cursor)
  /\ IF IsBlankText(extractText(Head(cursor)))
       THEN /\ stage' = "cursor"
            /\ UNCHANGED attempted
       ELSE /\ stage' = "embedding"
            /\ attempted' = attempted \cup {IdOf(Head(cursor))}
  /\ UNCHANGED <<runs, clientOpen, count, reported, updated, embedFailed,
                 updateFailed, aborted, previous, collection, chatVars>>

\* axios.post throws: the catch block of the loop body reports the record
IngestEmbeddingFails ==
  /\ stage = "embedding"
  /\ embedFailed' = embedFailed \cup {IdOf(current)}
  /\ stage' = AfterRecordCatch
  /\ UNCHANGED <<runs, clientOpen, cursor, current, count, reported, attempted,
                 updated, updateFailed, aborted, previous, collection, chatVars>>

\* the embedding service answers: without a vector generateEmbedding throws
\* "No embedding returned", with one updateOne is awaited
IngestEmbeddingReturns(answer) ==
  /\ stage = "embedding"
  /\ IF answer = "undefined"
       THEN /\ embedFailed' = embedFailed \cup {IdOf(current)}
            /\ stage' = AfterRecordCatch
       ELSE /\ stage' = "updating"
            /\ UNCHANGED embedFailed
  /\ UNCHANGED <<runs, clientOpen, cursor, current, count, reported, attempted,
                 updated, updateFailed, aborted, previous, collection, chatVars>>

\* updateOne throws and has written nothing: the catch block of the loop body
UpdateFails ==
  /\ stage = "updating"
  /\ updateFailed' = updateFailed \cup {IdOf(current)}
  /\ stage' = AfterRecordCatch
  /\ UNCHANGED <<runs, clientOpen, cursor, current, count, reported, attempted,
                 updated, embedFailed, aborted, previous, collection, chatVars>>

\* updateOne returns: the record has its embedding, count++
UpdateReturns ==
  /\ stage = "updating"
  /\ collection' = Written(collection, UpdateOneCall(IdOf(current), SetEmbedding))
  /\ count' = count + 1
  /\ updated' = updated \cup {IdOf(current)}
  /\ stage' = "cursor"
  /\ UNCHANGED <<runs, clientOpen, cursor, current, reported, attempted,
                 embedFailed, updateFailed, aborted, previous, chatVars>>

\* finally: client.close() returns and main ends
IngestCloseReturns ==
  /\ stage = "closing"
  /\ clientOpen' = FALSE
  /\ stage' = "ended"
  /\ UNCHANGED <<runs, cursor, current, count, reported, attempted, updated,
                 embedFailed, updateFailed, aborted, previous, collection, chatVars>>

\* ingestion runs one after the other over a collection; no chatbot meanwhile
IngestInit ==
  /\ ChatIdle
  /\ collection \in IngestCollections
  /\ IngestIdle

IngestNext ==
  \/ StartRun
  \/ IngestConnectFails
  \/ IngestConnectReturns
  \/ CursorFails
  \/ CursorEnds
  \/ CursorReturns
  \/ IngestEmbeddingFails
  \/ \E a \in EmbeddingAnswers : IngestEmbeddingReturns(a)
  \/ UpdateFails
  \/ UpdateReturns
  \/ IngestCloseReturns

IngestSpec ==
  IngestInit /\ [][IngestNext]_vars

-----
(* Properties of the turn loop                                             *)

StorageOps ==
  {"find", "distinct", "aggregate"}

ServiceOps ==
  {"embed", "generate"}

\* the positions of the call log that hold one of the operations ops
CallsOf(ops) ==
  {i \in DOMAIN calls : calls[i].op \in ops}

\* a line was read and it started a turn
InTurn ==
  turns > 0 /\ intent # "none"

\* the turn of the line read last has ended and the prompt is shown again
TurnOver ==
  InTurn /\ pc = "prompt"

IntentOrder ==
  <<"show-all-logs", "list-unique-field", "structured-list", "semantic-fallback">>

\* the pattern of the i-th intent matches the line, letter case ignored
PatternMatches(i, line) ==
  CASE i = 1 -> isShowLogsQuery(line)
    [] i = 2 -> UniqueMatch(line) > 0
    [] i = 3 -> IsDirectFieldQuery(line)
    [] OTHER -> TRUE

\* the calls issued so far are those of the branch in
HandledAs(in) ==
  \A i \in DOMAIN calls :
    /\ calls[i].op = "find" =>
         \/ in = "show-all-logs" /\ calls[i].arg.limit = 50
         \/ in = "structured-list" /\ calls[i].arg.limit = 100
    /\ calls[i].op = "distinct" => in = "list-unique-field"
    /\ calls[i].op \in ServiceOps \cup {"aggregate"} => in = "semantic-fallback"

\* C1: every line that is no exit token is handled by exactly one intent, the
\* first of show-all-logs, list-unique-field, structured-list,
\* semantic-fallback whose pattern matches it; a line matching show [all] logs
\* is never handled as structured-list, and a line matching none of the three
\* structured patterns is handled as semantic-fallback.
C1_FirstMatchingIntent ==
  (turns > 0 /\ pc # "done") =>
    /\ \E i \in 1..4 :
         /\ intent = IntentOrder[i]
         /\ PatternMatches(i, question)
         /\ \A j \in 1..(i - 1) : ~PatternMatches(j, question)
    /\ HandledAs(intent)
    /\ isShowLogsQuery(question) => intent = "show-all-logs"
    /\ (\A j \in 1..3 : ~PatternMatches(j, question)) => intent = "semantic-fallback"

\* a line that matches both the show-logs and the leading-verb pattern has
\* its full-dump find in flight
C1_Witness ==
  /\ pc = "storage"
  /\ isShowLogsQuery(question)
  /\ IsDirectFieldQuery(question)
  /\ calls[Len(calls)].op = "find"
  /\ calls[Len(calls)].arg.limit = 50

\* C2: whenever the prompt is shown (or the session has ended), no storage
\* connection opened by a turn is still open, whether or not the turn failed.
C2_NoConnectionLeftOpen ==
  pc \in {"prompt", "done"} => openConnections = 0

\* C3: once the embedding request of a turn has failed, be it by an error or
\* by an answer without a vector, it is the last call of the turn and the turn
\* has ended with a reported error.
C3_EmbeddingFailureEndsTurn ==
  \A i \in DOMAIN calls :
    (calls[i].op = "embed" /\ calls[i].result \in {"fail", "undefined"}) =>
      /\ i = Len(calls)
      /\ pc = "prompt"
      /\ outcome.kind = "error"

\* C4: the session ends exactly when the line read is exit or q after
\* trimming and lower-casing, and then without any call; a call that fails
\* ends its turn with a reported error and the next prompt, never the session.
C4_SessionEndsOnlyOnExit ==
  [][ /\ pc = "prompt" =>
           (pc' = "done" <=> ToLowerCase(Trim(question')) \in {kwExit, kwQ})
      /\ pc # "prompt" => pc' # "done"
      /\ pc' = "done" => calls' = <<>>
      /\ (calls' # <<>> /\ calls'[Len(calls')].result = "fail") =>
           (pc' = "prompt" /\ outcome'.kind = "error") ]_vars

\* the session was ended by an exit token right after a turn that failed
C4_Witness ==
  /\ pc = "done"
  /\ turns = 2
  /\ outcome.kind = "error"
  /\ question \in {qExit, qExitPadded, qQ}

\* the first call of the turn that failed, 0 when none did
FirstFailure ==
  LET failed == {i \in DOMAIN calls : calls[i].result \in {"fail", "undefined"}}
  IN  IF failed = {} THEN 0 ELSE CHOOSE i \in failed : \A j \in failed : i <= j

\* C5: the error a failed turn reports tells the failing subsystem: a storage
\* failure is reported by a message no service failure produces, and a
\* service failure by a message no storage failure produces.
C5_ErrorNamesFailingSubsystem ==
  (TurnOver /\ outcome.kind = "error") =>
    /\ FirstFailure > 0
    /\ calls[FirstFailure].op \in ServiceOps =>
         outcome.text \in ServiceErrorMessages \ StorageErrorMessages
    /\ calls[FirstFailure].op \notin ServiceOps =>
         outcome.text \in StorageErrorMessages \ ServiceErrorMessages

StructuredIntents ==
  {"show-all-logs", "list-unique-field", "structured-list"}

\* the structured turn that just ended had its storage call fail
LookupFailed ==
  calls # <<>> /\ calls[Len(calls)].result = "fail"

\* the structured turn that just ended had its lookup answer zero records
LookupEmpty ==
  /\ \E i \in CallsOf(StorageOps) : calls[i].result = "ok"
  /\ results = <<>>

-----------------------------------------------------------------------------
(* Properties of the extracted fields and filters                          *)

\* the word and stands alone at position i of s
WordAndAt(s, i) ==
  LitAt(s, i, kwAnd) /\ WordBoundary(s, i) /\ WordBoundary(s, i + 3)

\* a comma or the standalone word and stands at position i: its length, else 0
ClauseSeparatorAt(s, i) ==
  IF WordAndAt(s, i) THEN 3
  ELSE IF LitAt(s, i, <<",">>) THEN 1
  ELSE 0

RECURSIVE FirstClauseSeparator(_, _)
FirstClauseSeparator(s, i) ==
  IF i > Len(s) THEN 0
  ELSE IF ClauseSeparatorAt(s, i) > 0 THEN i
  ELSE FirstClauseSeparator(s, i + 1)

\* s cut only at commas and at the standalone word and
RECURSIVE SplitClauses(_)
SplitClauses(s) ==
  LET i == FirstClauseSeparator(s, 1)
  IN  IF i > 0
        THEN <<SubSeq(s, 1, i - 1)>> \o SplitClauses(From(s, i + ClauseSeparatorAt(s, i)))
        ELSE <<s>>

\* s without the pair of quotes that surrounds it, if any
Unquote(s) ==
  IF Len(s) >= 2 /\ IsQuote(s[1]) /\ IsQuote(s[Len(s)])
    THEN SubSeq(s, 2, Len(s) - 1)
    ELSE s

\* t occurs in s as it stands
IsSubstring(t, s) ==
  \E i \in 1..(Len(s) - Len(t) + 1) : LitAt(s, i, t)

\* the filter clause of a line on the path of the branch in, <<>> without one
FilterText(line, in) ==
  IF in = "show-all-logs" /\ HasFilterClause(line) THEN FilterClause(line)
  ELSE IF in = "structured-list" /\ FieldsStart(line) > 0 THEN RawFilter(line)
  ELSE <<>>

\* the sub-clauses k=v of a filter clause as the user typed them: the pairs
\* <<field, v>> of those whose key resolves to an identifier field
TypedIdentifierPairs(text) ==
  LET typed == {c \in Range(SplitClauses(text)) : IndexOfChar(c, "=", 1) > 0}
      keyOf(c) == ResolveField(Unquote(Trim(SubSeq(c, 1, IndexOfChar(c, "=", 1) - 1))))
      valueOf(c) == Unquote(Trim(From(c, IndexOfChar(c, "=", 1) + 1)))
  IN  {<<keyOf(c), valueOf(c)>> :
         c \in {d \in typed : keyOf(d) \in IdentifierFields /\ valueOf(d) # <<>>}}

\* C8: for every sub-clause k=v whose key resolves to an identifier field, on
\* the show-all-logs path and on the structured-list path, the filter passed
\* to find holds that field with the literal value v as typed: surrounding
\* quotes removed, case preserved, nothing cut off.
C8_IdentifierFilterIsTypedValue ==
  \A i \in CallsOf({"find"}) :
    \A pair \in TypedIdentifierPairs(FilterText(question, intent)) :
      /\ pair[1] \in DOMAIN calls[i].arg.filter
      /\ calls[i].arg.filter[pair[1]] = Literal(pair[2])

\* the pattern p carries ^ at its start and $ at its end around typed text
AnchoredTyped(p, line) ==
  /\ Len(p) >= 2
  /\ p[1] = "^"
  /\ p[Len(p)] = "$"
  /\ IsSubstring(SubSeq(p, 2, Len(p) - 1), StripQuotes(line))

\* the pattern p is typed text as it stands: nothing was put around it
UnanchoredTyped(p, line) ==
  IsSubstring(p, StripQuotes(line))

\* the entries of the filter mapping flt of a turn of branch in on line obey
\* the rule: a literal exactly for the identifier fields, else a
\* case-insensitive pattern, anchored on the show-all-logs path only
FilterEntriesObeyRule(flt, in, line) ==
  \A key \in DOMAIN flt :
    /\ flt[key].kind = "literal" <=> key \in IdentifierFields
    /\ flt[key].kind \in {"literal", "regex"}
    /\ flt[key].kind = "regex" =>
         /\ flt[key].options = <<"i">>
         /\ IF in = "show-all-logs"
              THEN AnchoredTyped(flt[key].text, line)
              ELSE UnanchoredTyped(flt[key].text, line)

\* C9: every entry of the filter mapping a turn extracts, and of the filter
\* it passes to find, is an exact literal if and only if its key is one of
\* the four identifier fields; every other entry is a case-insensitive
\* pattern, anchored at both ends on the show-all-logs path and unanchored on
\* the structured-list path.
C9_LiteralIffIdentifierField ==
  /\ FilterEntriesObeyRule(filters, intent, question)
  /\ \A i \in CallsOf({"find"}) :
       FilterEntriesObeyRule(calls[i].arg.filter, intent, question)

\* a full-dump find in flight whose filter holds a literal for an identifier
\* field and an anchored pattern for another field
C9_Witness ==
  /\ pc = "storage"
  /\ intent = "show-all-logs"
  /\ \E k1, k2 \in DOMAIN calls[Len(calls)].arg.filter :
       /\ calls[Len(calls)].arg.filter[k1].kind = "literal"
       /\ calls[Len(calls)].arg.filter[k2].kind = "regex"

\* the field list of a line when its field part is cut only at commas and at
\* the standalone word and
FieldsByWord(line) ==
  IF FieldsStart(line) > 0
    THEN FieldsOf(SplitClauses(RawFields(line)))
    ELSE <<>>

\* C10: the field list of a structured-list turn is the sequence, in input
\* order, of the alias-resolved tokens of the field part cut only at commas
\* and at the standalone word and, each stripped of the characters outside
\* [a-zA-Z0-9_.], the empty ones dropped; letters a-n-d inside a longer word
\* do not cut it.
C10_FieldsCutOnlyAtWordAnd ==
  intent = "structured-list" => fields = FieldsByWord(question)

-----------------------------------------------------------------------------
(* Properties of alias resolution and of the structured branches           *)

\* the canonical path the alias table documents for a token, the token as it
\* stands when its lower-cased form is no key of the table
DocumentedPath(token) ==
  IF \E e \in FIELD_ALIASES : e[1] = ToLowerCase(token)
    THEN (CHOOSE e \in FIELD_ALIASES : e[1] = ToLowerCase(token))[2]
    ELSE token

\* the tokens handed to alias resolution: each cut of the field part trimmed
\* and stripped of the characters outside [a-zA-Z0-9_.], the empty ones dropped
RECURSIVE CleanedTokens(_)
CleanedTokens(tokens) ==
  IF tokens = <<>> THEN <<>>
  ELSE LET cleaned == StripNonFieldChars(Trim(Head(tokens)))
       IN  IF cleaned # <<>>
             THEN <<cleaned>> \o CleanedTokens(Tail(tokens))
             ELSE CleanedTokens(Tail(tokens))

\* the tokens a line hands to alias resolution on the branch in
ResolvedTokens(line, in) ==
  IF in = "structured-list" /\ FieldsStart(line) > 0
    THEN CleanedTokens(SplitAndComma(RawFields(line)))
  ELSE IF in = "list-unique-field"
    THEN <<StripNonFieldChars(Trim(From(line, UniqueMatch(line))))>>
  ELSE <<>>

\* C11: every token handed to alias resolution resolves to the canonical path
\* the alias table documents for its lower-cased form, and to the token itself,
\* unchanged, when the table has no such key; the result is always a
\* field-path string.
C11_AliasResolutionIsTableOrToken ==
  intent \in {"structured-list", "list-unique-field"} =>
    LET toks == ResolvedTokens(question, intent)
    IN  fields = [i \in DOMAIN toks |-> DocumentedPath(toks[i])]

\* the argument <x> of a line list unique <x>, as typed
UniqueArgument(line) ==
  From(line, UniqueMatch(line))

\* the connection of this turn was opened
Connected ==
  \E i \in CallsOf({"connect"}) : calls[i].result = "ok"

C13_NoFieldsGivesGuidance ==
  (intent = "structured-list" /\ FieldsByWord(question) = <<>>) =>
    /\ calls = <<>>
    /\ outcome = GuidanceOutcome
    /\ outcome.kind # "error"
    /\ pc = "prompt"

\* the second turn of a session is a field list without any field, after a
\* first turn that went to storage
C13_Witness ==
  /\ turns = 2
  /\ question = qListBang
  /\ intent = "structured-list"
  /\ fields = <<>>
  /\ outcome.kind = "guidance"
  /\ pc = "prompt"

\* one of where, with, having, for stands in s as a word followed by
\* whitespace
HasClauseKeyword(s) ==
  \E i \in 1..Len(s) : WordBoundary(s, i) /\ FilterKeywordAt(s, i) > 0

KeysOfClauses(text, empty) ==
  LET typed == {c \in Range(SplitClauses(text)) : IndexOfChar(c, "=", 1) > 0}
      keyOf(c) == ResolveField(StripQuotes(Trim(SubSeq(c, 1, IndexOfChar(c, "=", 1) - 1))))
      valueOf(c) == StripQuotes(Trim(From(c, IndexOfChar(c, "=", 1) + 1)))
  IN  {keyOf(c) : c \in {d \in typed : (valueOf(d) = <<>>) = empty}}

\* the predicate an empty value would make: an empty literal, an empty
\* pattern, or the anchors around nothing
MadeOfEmptyValue(pred) ==
  pred.text = <<>> \/ (pred.kind = "regex" /\ pred.text = <<"^", "$">>)

\* C15: no filter passed to a storage call holds a key whose value is empty:
\* a sub-clause with an empty value adds no constraint, on the show-all-logs
\* path and on the structured-list path, and a similarity search gets no
\* filter at all.
C15_NoEmptyFilterValueReachesStorage ==
  /\ \A i \in CallsOf({"find"}) :
       /\ \A key \in DOMAIN calls[i].arg.filter :
            ~MadeOfEmptyValue(calls[i].arg.filter[key])
       /\ \A key \in KeysOfClauses(FilterText(question, intent), TRUE)
                       \ KeysOfClauses(FilterText(question, intent), FALSE) :
            key \notin DOMAIN calls[i].arg.filter
  /\ \A i \in CallsOf({"aggregate"}) : ~calls[i].arg.hasFilter

\* a full-dump find in flight on a line with one empty-valued sub-clause and
\* one that has a value: only the second constrains the query
C15_Witness ==
  /\ pc = "storage"
  /\ question = qShowLogsEmptyAndWard
  /\ calls[Len(calls)].op = "find"
  /\ DOMAIN calls[Len(calls)].arg.filter = {AliasOf(<<"w","a","r","d">>)}

-----------------------------------------------------------------------------
(* Properties of the records retrieved and displayed                       *)

\* the storage operation of this turn was answered
LookupAnswered ==
  \E i \in CallsOf(StorageOps) : calls[i].result = "ok"

\* C16: a projected find asks for at most 100 records, a full dump for at
\* most 50 and a similarity search for at most 15 out of 100 candidates under
\* cosine similarity, and the turn retrieves no more than that however many
\* records match.
C16_RetrievalIsBounded ==
  /\ \A i \in CallsOf({"find"}) :
       /\ intent = "structured-list" => calls[i].arg.limit = 100
       /\ intent = "show-all-logs" => calls[i].arg.limit = 50
       /\ calls[i].result = "ok" =>
            /\ Len(results) <= calls[i].arg.limit
            /\ Len(printed) <= calls[i].arg.limit
  /\ \A i \in CallsOf({"aggregate"}) :
       /\ calls[i].arg.limit = 15
       /\ calls[i].arg.numCandidates = 100
       /\ calls[i].arg.similarity = "cosine"
       /\ calls[i].result = "ok" => Len(results) <= 15

\* a full dump over a collection with more than 50 matching records printed
\* exactly 50 of them
C16_Witness ==
  /\ TurnOver
  /\ intent = "show-all-logs"
  /\ Len(results) = 50
  /\ Len(printed) = 50

\* C17: every record a show-all-logs turn displays is the stored record
\* without its embedding property: the embedding is never shown, whether or
\* not the record has one, and every other property is shown with its value.
C17_DumpShowsRecordsWithoutEmbedding ==
  (TurnOver /\ intent = "show-all-logs" /\ outcome.kind = "dump") =>
    /\ Len(printed) = Len(results)
    /\ \A i \in DOMAIN printed :
         /\ \A p \in DOMAIN printed[i] : p[1] # fEmbedding
         /\ DOMAIN printed[i] \subseteq DOMAIN Record(results[i])
         /\ \A p \in DOMAIN Record(results[i]) :
              p[1] # fEmbedding =>
                /\ p \in DOMAIN printed[i]
                /\ printed[i][p] = Record(results[i])[p]

\* a dump that displayed a record stored with an embedding and one stored
\* without
C17_Witness ==
  /\ TurnOver
  /\ outcome.kind = "dump"
  /\ \E i, j \in DOMAIN results :
       /\ <<fEmbedding>> \in DOMAIN Record(results[i])
       /\ <<fEmbedding>> \notin DOMAIN Record(results[j])
       /\ <<fDeviceId>> \in DOMAIN printed[i]

\* C18: in a semantic-fallback turn whose similarity search answered zero
\* records, the generation service is called exactly once, with an empty
\* context and the line as read; the turn reports the generated answer, never
\* a no-results message, and an error only when the generation request failed.
C18_EmptyRetrievalStillGenerates ==
  (intent = "semantic-fallback" /\ LookupAnswered /\ results = <<>>) =>
    /\ pc \in {"closing", "generating", "prompt"}
    /\ pc # "closing" =>
         /\ Cardinality(CallsOf({"generate"})) = 1
         /\ \A i \in CallsOf({"generate"}) :
              /\ calls[i].arg.context = <<>>
              /\ calls[i].arg.question = question
    /\ pc = "prompt" =>
         /\ outcome.kind \in {"answer", "error"}
         /\ \A i \in CallsOf({"generate"}) :
              /\ calls[i].result = "ok" <=> outcome = AnswerOutcome
              /\ calls[i].result = "fail" <=> outcome.kind = "error"

\* a semantic turn on an embedded question found no record and reported the
\* generated answer
C18_Witness ==
  /\ TurnOver
  /\ intent = "semantic-fallback"
  /\ embedding = "vector"
  /\ LookupAnswered
  /\ results = <<>>
  /\ outcome = AnswerOutcome

\* the value a stored record holds at a path written with dots, the empty
\* string when the path is absent or holds null
ValueAt(doc, f) ==
  LET path == SplitOnChar(f, ".")
  IN  IF path \in DOMAIN doc /\ doc[path].type # "null"
        THEN doc[path]
        ELSE StringValue("")

\* C19: after a projected find that answered records, the turn displays one
\* row per record, each with one cell per requested field in the requested
\* order, the cell holding the record's value at that path and the empty
\* string when the path or an object along it is absent; building the rows
\* raises no exception.
C19_RowsHoldRequestedValues ==
  (TurnOver /\ intent = "structured-list" /\ LookupAnswered /\ results # <<>>) =>
    /\ outcome.kind = "table"
    /\ Len(printed) = Len(results)
    /\ \A i \in DOMAIN printed :
         /\ Len(printed[i]) = Len(fields)
         /\ \A j \in DOMAIN fields :
              printed[i][j] = ValueAt(Record(results[i]), fields[j])

\* the calls in flight
Pending ==
  {i \in DOMAIN calls : calls[i].result = "pending"}

\* C20: at every moment at most one boundary call is in flight, and it is the
\* one issued last; a line is read only at the prompt, when no call is in
\* flight and the turn before it has produced its outcome.
C20_TurnsAreSequential ==
  /\ [](/\ Cardinality(Pending) <= 1
        /\ Pending \subseteq {Len(calls)}
        /\ pc \in {"prompt", "done"} => Pending = {}
        /\ TurnOver => outcome # NoOutcome)
  /\ [][turns' # turns =>
          /\ pc = "prompt"
          /\ Pending = {}
          /\ InTurn => outcome # NoOutcome]_vars

\* the second turn of a session has its generation request in flight, after
\* a first turn that ended with an outcome
C20_Witness ==
  /\ turns = 2
  /\ pc = "generating"
  /\ Pending = {Len(calls)}
  /\ Len(calls) = 5

-----------------------------------------------------------------------------
(* Properties of a turn as a whole                                         *)

\* what a turn on this line computes when it is the first of a session
FreshTurn(line) ==
  (CHOOSE p \in ParsedLines : p.line = line).turn

\* the calls a turn issues, in order, as its line and the answers it got so
\* far in this turn determine them
CallsDetermined(line, t) ==
  IF t.intent = "semantic-fallback"
    THEN << EmbedCall(line),
            ConnectCall,
            AggregateCall(IF calls # <<>> THEN calls[1].result ELSE "none", NoFilters),
            CloseCall,
            GenerateCall(formatContext(RecordsOf(results, {})), line) >>
    ELSE << ConnectCall,
            StorageCall(t.intent, t.fields, t.filters, "none"),
            CloseCall >>

\* C21: at every moment of a turn its intent, fields and filters are those
\* its own line gives in a fresh session, and every call it has issued is the
\* one its line and the answers of this turn determine; reading a line starts
\* from nothing: no embedding, no results, nothing displayed, no earlier call.
C21_TurnDependsOnlyOnItsLine ==
  /\ [](InTurn =>
          LET t == FreshTurn(question)
              expected == CallsDetermined(question, t)
          IN  /\ intent = t.intent
              /\ fields = t.fields
              /\ filters = t.filters
              /\ Len(calls) <= Len(expected)
              /\ \A k \in DOMAIN calls :
                   [calls[k] EXCEPT !.result = "pending"] = expected[k])
  /\ [][turns' # turns =>
          /\ embedding' = "none"
          /\ results' = <<>>
          /\ printed' = <<>>
          /\ Len(calls') <= 1
          /\ \A k \in DOMAIN calls' : calls'[k].result = "pending"]_vars

\* a full dump without a filter clause is in flight right after a turn whose
\* filtered dump failed in storage
C21_Witness ==
  /\ turns = 2
  /\ question = qShowLogs
  /\ pc = "storage"
  /\ outcome = NoOutcome
  /\ openConnections = 2
  /\ calls[Len(calls)].arg.filter = NoFilters

\* the line is the special command deviceid "<id>"
IsDeviceLookup(line) ==
  LET j == SkipSpaces(line, 9)
  IN  /\ LitAtCI(line, 1, <<"d","e","v","i","c","e","i","d">>)
      /\ j > 9
      /\ j + 1 < Len(line)
      /\ line[j] = "\""
      /\ line[Len(line)] = "\""

\* the <id> of the special command
DeviceLookupId(line) ==
  SubSeq(line, SkipSpaces(line, 9) + 1, Len(line) - 1)

\* C22: a turn on a line deviceid "<id>" calls neither service and issues no
\* similarity search; once connected it issues one find whose filter holds
\* DeviceId with the literal <id>.
C22_DeviceLookupIsStructuredFind ==
  (InTurn /\ IsDeviceLookup(question)) =>
    /\ CallsOf(ServiceOps \cup {"aggregate", "distinct"}) = {}
    /\ Connected =>
         /\ Cardinality(CallsOf({"find"})) = 1
         /\ \A i \in CallsOf({"find"}) :
              /\ AliasOf(<<"d","e","v","i","c","e","i","d">>) \in DOMAIN calls[i].arg.filter
              /\ calls[i].arg.filter[AliasOf(<<"d","e","v","i","c","e","i","d">>)]
                   = Literal(DeviceLookupId(question))

\* the lines the documentation lists as natural-language queries
NaturalLanguageQueries ==
  { qWhatErrors, qShowMeLogs, qWardStatus, qFindLogs, qConnectionIssues }

\* C23: a turn on a line the documentation lists as a natural-language query
\* takes the semantic path: it issues no find and no distinct, its first call
\* is the embedding request, and its outcome is a generated answer or an error.
C23_DocumentedQuestionsAreSemantic ==
  (InTurn /\ question \in NaturalLanguageQueries) =>
    /\ intent = "semantic-fallback"
    /\ CallsOf({"find", "distinct"}) = {}
    /\ calls # <<>> /\ calls[1].op = "embed"
    /\ TurnOver => outcome.kind \in {"answer", "error"}

\* Parse of every line of Questions after trimming, computed once
TrimmedLines ==
  {[line |-> q, turn |-> Parse(Trim(q))] : q \in Questions}

\* what a turn on the trimmed line computes
TrimmedTurn(line) ==
  (CHOOSE p \in TrimmedLines : p.line = line).turn

-----------------------------------------------------------------------------
(* Properties of the context                                               *)

\* the line of the k-th block that stands at place m of the template
LineOfBlock(context, k, m) ==
  context[8 * (k - 1) + m]

\* C30: the context handed to the generation service for n retrieved records
\* is the empty text for n = 0 and else n blocks of seven lines in retrieval
\* order, headed # Log 1 to # Log n, with one blank line between two blocks
\* and nowhere else; a record without the nested LogData object is rendered,
\* its nested values as undefined, and the generation request is issued.
C30_ContextIsNumberedBlocks ==
  /\ \A i \in CallsOf({"generate"}) :
       LET context == calls[i].arg.context
           n == Len(results)
       IN  /\ n = 0 => context = <<>>
           /\ n > 0 => Len(context) = 8 * n - 1
           /\ \A k \in 1..n :
                /\ LineOfBlock(context, k, 1) = Line("# Log ", ToString(k))
                /\ LineOfBlock(context, k, 2)
                     = Line("DeviceId: ", Record(results[k])[<<fDeviceId>>].text)
                /\ LineOfBlock(context, k, 7)
                     = Line("Timestamp: ", Record(results[k])[<<fTimestamp>>].text)
                /\ LineOfBlock(context, k, 5).label = "Model: "
                /\ LineOfBlock(context, k, 5).text =
                     IF <<fLogData, fModel>> \in DOMAIN Record(results[k])
                       THEN Record(results[k])[<<fLogData, fModel>>].text
                       ELSE "undefined"
                /\ k < n => context[8 * k] = BlankLine
           /\ \A j \in DOMAIN context : context[j] = BlankLine => j % 8 = 0
  /\ (intent = "semantic-fallback" /\ LookupAnswered /\ pc \in {"generating", "prompt"}) =>
       CallsOf({"generate"}) # {}

\* the generation request is in flight with a context of two blocks, the
\* second of a record that has no LogData object
C30_Witness ==
  /\ pc = "generating"
  /\ Len(results) = 2
  /\ <<fLogData>> \notin DOMAIN Record(results[2])
  /\ Len(calls[Len(calls)].arg.context) = 15
  /\ calls[Len(calls)].arg.context[8] = BlankLine

-----------------------------------------------------------------------------
(* Progress of a turn                                                      *)

OutcomeKinds ==
  {"table", "values", "dump", "answer", "guidance", "no_results", "error"}

\* C26: when every boundary call is answered in the end, a turn that awaits
\* a call reaches the next prompt with an outcome; the outcome is one of
\* table, value list, full dump, generated answer, guidance message,
\* no-results message and error message, and once produced it is the only one
\* of its turn.
C26_EveryTurnEndsWithOneOutcome ==
  /\ (pc \notin {"prompt", "done"}) ~> (pc = "prompt" /\ outcome.kind \in OutcomeKinds)
  /\ [](TurnOver => outcome.kind \in OutcomeKinds)
  /\ [][(outcome # NoOutcome /\ turns' = turns) => outcome' = outcome]_vars

\* the second turn of a session ended with a table after a first turn that
\* ended with an error
C26_Witness ==
  /\ turns = 2
  /\ TurnOver
  /\ outcome.kind = "table"
  /\ openConnections = 1

-----------------------------------------------------------------------------
(* The chatbot and the stored collection                                   *)

\* the storage operations that read
ReadOperations ==
  {"find", "distinct", "aggregate"}

\* the calls that are no operation on the collection
OtherCalls ==
  {"connect", "close", "embed", "generate"}

\* C28: every storage operation a chatbot turn issues is a find, a distinct
\* or a similarity aggregate, and no step of a session, of a turn that
\* succeeds or of one that fails, changes a record or a field of the stored
\* collection.
C28_ChatbotNeverWrites ==
  /\ [](\A k \in DOMAIN calls : calls[k].op \in ReadOperations \cup OtherCalls)
  /\ [](collection = StoredRecords)
  /\ [][collection' = collection]_vars

\* the second turn ended with an error after its similarity search was
\* answered, the first having left its connection open
C28_Witness ==
  /\ turns = 2
  /\ pc = "prompt"
  /\ outcome.kind = "error"
  /\ openConnections = 1
  /\ \E k \in DOMAIN calls : calls[k].op = "aggregate" /\ calls[k].result = "ok"

-----------------------------------------------------------------------------
(* Properties of an ingestion run                                          *)

\* the stored record with this _id
StoredWith(id) ==
  collection[CHOOSE i \in DOMAIN collection : IdOf(collection[i]) = id]

\* the step changes no record but by adding an embedding to one that had none
OnlyAddsEmbeddings ==
  /\ DOMAIN collection' = DOMAIN collection
  /\ \A i \in DOMAIN collection :
       collection'[i] # collection[i] =>
         /\ LacksEmbedding(collection[i])
         /\ DOMAIN collection'[i] = DOMAIN collection[i] \cup {<<fEmbedding>>}
         /\ \A q \in DOMAIN collection[i] : collection'[i][q] = collection[i][q]

\* C24 as stated: a run requests embeddings only for records without an
\* embedding field, modifies no record that has one and changes nothing
\* but by adding an embedding; a run started after a run in which no embedding
\* call failed embeds no record.
C24_RunAfterNoEmbeddingFailureEmbedsNothing ==
  /\ [](stage = "embedding" =>
          LacksEmbedding(current) /\ LacksEmbedding(StoredWith(IdOf(current))))
  /\ [][OnlyAddsEmbeddings]_vars
  /\ []((previous.ran /\ previous.embedFailed = {}) => updated = {})

\* the run before this one reached the end of its cursor and none of its
\* embedding calls and updates failed
PreviousRunComplete ==
  /\ previous.ran
  /\ ~previous.aborted
  /\ previous.embedFailed = {}
  /\ previous.updateFailed = {}

\* C24 as amended: a run requests embeddings only for records without an
\* embedding field, modifies no record that has one and changes nothing
\* but by adding an embedding; a run started after a run that reached the end
\* of its cursor and in which no embedding call and no update failed requests
\* no embedding and embeds no record.
C24_RunAfterCompleteRunEmbedsNothing ==
  /\ [](stage = "embedding" =>
          LacksEmbedding(current) /\ LacksEmbedding(StoredWith(IdOf(current))))
  /\ [][OnlyAddsEmbeddings]_vars
  /\ [](PreviousRunComplete => attempted = {} /\ updated = {})

\* a second run ended with a total of 0 after a complete run that embedded
\* two records and left alone one that had an embedding
C24_Witness ==
  /\ runs = 2
  /\ stage = "ended"
  /\ PreviousRunComplete
  /\ Cardinality(previous.updated) = 2
  /\ Len(collection) = 3
  /\ reported = 0

\* the step is a catch block of the loop body
RecordFailed ==
  (embedFailed' \ embedFailed) \cup (updateFailed' \ updateFailed) # {}

\* _ids of the stored records without an embedding
IdsLackingEmbedding ==
  {IdOf(collection[i]) : i \in {j \in DOMAIN collection : LacksEmbedding(collection[j])}}

\* C29: a failure to embed or to update a record leaves the record without
\* an embedding and the collection as it was, and the loop goes on with the
\* rest of the cursor; a run that prints its total has attempted every record
\* that lacked an embedding, and the total is the number of records it
\* updated; the storage client is closed when the run has ended, with a total
\* or through the outer catch block.
C29_RecordFailureDoesNotStopTheRun ==
  /\ [][RecordFailed =>
          /\ collection' = collection
          /\ LacksEmbedding(StoredWith(IdOf(current)))
          /\ stage' = "cursor"
          /\ cursor' = cursor
          /\ count' = count
          /\ aborted' = aborted]_vars
  /\ [](reported # NotReported =>
          /\ attempted = updated \cup IdsLackingEmbedding
          /\ updated = attempted \ (embedFailed \cup updateFailed)
          /\ reported = Cardinality(updated))
  /\ [](stage \in {"idle", "ended"} => ~clientOpen)

\* a run over three records ended with a total of 1: the embedding of one
\* record failed, the update of another failed, the third was updated
C29_Witness ==
  /\ stage = "ended"
  /\ ~aborted
  /\ Cardinality(embedFailed) = 1
  /\ Cardinality(updateFailed) = 1
  /\ Cardinality(updated) = 1
  /\ reported = 1

====
